---- MODULE Spec2Model ----
(***************************************************************************)
(* Natural-language stock screener: the query compiler (pattern rules and  *)
(* the model-based fallback) and the screening / condition evaluation      *)
(* engine, modelled from the TypeScript sources.                           *)
(*                                                                         *)
(* The repository holds several variants of the same pipeline:             *)
(*   "edge"      the multi-model edge function (unnamed/part_001:398-1198) *)
(*   "single"    the single-model edge function                            *)
(*               (supabase/functions/stock-screener/index.ts)              *)
(*   "legacy"    the first edge function (unnamed/part_001:1-396)          *)
(*   "reference" the reference library (sample-reference/parser.ts)        *)
(* A request is served by one of them.                                     *)
(*                                                                         *)
(* Text is modelled as a sequence of whitespace-separated tokens: a word   *)
(* (an operator phrase such as "greater than" is one token) or a number,   *)
(* possibly followed by '%'.  uc marks a token typed in upper case.        *)
(***************************************************************************)
EXTENDS Integers, Sequences, FiniteSets, TLC

VARIABLES
    variant,        \* which variant of the pipeline serves the request
    text,           \* the query text (token sequence) of the request
    userId,         \* TRUE when the request is authenticated
    apiKey,         \* TRUE when the provider API key is configured
    pc,             \* position of parseQuery: see PcValues
    modelsAttempted,\* parseWithLLMs: models pushed so far
    inflight,       \* provider calls issued and not yet answered (model names)
    callLog,        \* the provider's log of the calls it received, in order
    respLog,        \* class of each answer received: "failed", "partial", "high"
    lastOutcome,    \* the last provider answer handled
    lastPartial,    \* last valid medium/low result a candidate returned
    parsedFilter,   \* the ParsedFilter parseQuery returns (pc = "done")
    hung,           \* TRUE when the provider will never answer the call in flight
    thrown,         \* the exception that left parseQuery ("" when none)
    sink,           \* usage-logging insert: "idle", "pending", "stored", "rejected", "stalled"
    rvariant,       \* Pattern-Rule Parser alone: which parser
    rtext,          \* its input text
    rresult,        \* its result
    rpc,            \* "ready" before the call, "parsed" after, "reparsed" after more
    templates,      \* the template object of each rule of REGEX_RULES, as it is now
    svariant,       \* screening: which screenStocks
    stockData,      \* screening: symbol -> series of bars, oldest first
    sfilter,        \* screening: the ParsedFilter screened for
    results,        \* screening: symbols returned, in order
    sthrown,        \* screening: TRUE when screenStocks threw
    spc,            \* "ready" before screenStocks, "screened" after
    cmpVariant,     \* comparison alone: which evaluator's comparison
    cmpValue,       \* its first argument, a number
    cmpOp,          \* its operator
    cmpTarget,      \* its target, a condition value
    cmpResult,      \* what it returned
    cmpPc,          \* "ready" before the call, "compared" after
    libBands        \* the last Bollinger / Keltner band the indicator package answers

pvars == <<variant, text, userId, apiKey, pc, modelsAttempted, inflight, hung, callLog,
           respLog, lastOutcome, lastPartial, parsedFilter, thrown, sink>>
rvars == <<rvariant, rtext, rresult, rpc, templates>>
svars == <<svariant, stockData, sfilter, results, sthrown, spc>>
cvars == <<cmpVariant, cmpValue, cmpOp, cmpTarget, cmpResult, cmpPc, libBands>>
vars == <<pvars, rvars, svars, cvars>>

-----------------------------------------------------------------------------
(* Tokens *)

W(s)  == [k |-> "w", w |-> s, n |-> 0, pct |-> FALSE, uc |-> FALSE]
N(i)  == [k |-> "n", w |-> "", n |-> i, pct |-> FALSE, uc |-> FALSE]
NP(i) == [k |-> "n", w |-> "", n |-> i, pct |-> TRUE, uc |-> FALSE]
NoTok == [k |-> "none", w |-> "", n |-> 0, pct |-> FALSE, uc |-> FALSE]

\* String.prototype.toLowerCase on a token / on a text
LowerTok(t) == [t EXCEPT !.uc = FALSE]
toLowerCase(toks) == [i \in 1..Len(toks) |-> LowerTok(toks[i])]
UpperText(toks) == [i \in 1..Len(toks) |-> [toks[i] EXCEPT !.uc = (toks[i].k = "w")]]

-----------------------------------------------------------------------------
(* Numbers: a JavaScript number is modelled as the rational n/d, d >= 0;   *)
(* 1/0 is Infinity, -1/0 is -Infinity, 0/0 is NaN.  undefined in a numeric *)
(* position converts to NaN.                                               *)

R(n, d) == [n |-> n, d |-> d]
NaN == R(0, 0)
IsNaN(a) == a.n = 0 /\ a.d = 0
Sign(i) == IF i > 0 THEN 1 ELSE IF i < 0 THEN -1 ELSE 0
Abs(i) == IF i < 0 THEN -i ELSE i
RECURSIVE Gcd(_, _)
Gcd(a, b) == IF b = 0 THEN a ELSE Gcd(b, a % b)
\* the numerators of a and b over their least common denominator (over the
\* other's denominator where one of them is infinite)
Num1(a, b) == IF a.d = 0 \/ b.d = 0 THEN a.n * b.d ELSE a.n * (b.d \div Gcd(a.d, b.d))
Num2(a, b) == IF a.d = 0 \/ b.d = 0 THEN b.n * a.d ELSE b.n * (a.d \div Gcd(a.d, b.d))
RLt(a, b) ==
    /\ ~IsNaN(a) /\ ~IsNaN(b)
    /\ IF a.d = 0 /\ b.d = 0 THEN a.n < b.n ELSE Num1(a, b) < Num2(a, b)
RLe(a, b) ==
    /\ ~IsNaN(a) /\ ~IsNaN(b)
    /\ IF a.d = 0 /\ b.d = 0 THEN a.n <= b.n ELSE Num1(a, b) <= Num2(a, b)
REq(a, b) == ~IsNaN(a) /\ ~IsNaN(b) /\ Num1(a, b) = Num2(a, b)
\* the same number in lowest terms
Norm(a) ==
    IF a.d = 0 THEN R(Sign(a.n), 0)
    ELSE LET g == Gcd(Abs(a.n), a.d) IN R(a.n \div g, a.d \div g)
RAbs(a) == R(Abs(a.n), a.d)
RAdd(a, b) ==
    IF IsNaN(a) \/ IsNaN(b) THEN NaN
    ELSE IF a.d = 0 /\ b.d = 0 THEN (IF a.n = b.n THEN a ELSE NaN)
    ELSE IF a.d = 0 THEN a
    ELSE IF b.d = 0 THEN b
    ELSE Norm(R(Num1(a, b) + Num2(a, b), (a.d \div Gcd(a.d, b.d)) * b.d))
RSub(a, b) == RAdd(a, R(-b.n, b.d))
RMul(a, b) == IF IsNaN(a) \/ IsNaN(b) THEN NaN ELSE Norm(R(a.n * b.n, a.d * b.d))
\* a / b
RDiv(a, b) ==
    IF IsNaN(a) \/ IsNaN(b) THEN NaN
    ELSE LET n == a.n * b.d * (IF b.n < 0 THEN -1 ELSE 1)
             d == a.d * Abs(b.n)
         IN  Norm(R(n, d))

NoVal == [t |-> "none", n |-> 0, d |-> 1, lo |-> 0, hi |-> 0]
NumVal(n, d) == [t |-> "num", n |-> n, d |-> d, lo |-> 0, hi |-> 0]
PairVal(lo, hi) == [t |-> "pair", n |-> 0, d |-> 1, lo |-> lo, hi |-> hi]

-----------------------------------------------------------------------------
(* Conditions (ParsedCondition / ScreenerCondition).  An absent string     *)
(* field is "", an absent window is 0 (both falsy in the source).          *)

EmptyCond ==
    [category |-> 0, indicator |-> "", window |-> 0, op |-> "", value |-> NoVal,
     ma_type |-> "", benchmark |-> "", reference |-> "", pattern_type |-> "",
     direction |-> "", screener |-> "", timeframe |-> ""]

TCat(c) == [EmptyCond EXCEPT !.category = c]
TInd(c, ind) == [EmptyCond EXCEPT !.category = c, !.indicator = ind]
TOp(c, op) == [EmptyCond EXCEPT !.category = c, !.op = op]
TIndOp(c, ind, op) == [EmptyCond EXCEPT !.category = c, !.indicator = ind, !.op = op]
TPat(pt) == [EmptyCond EXCEPT !.category = 6, !.pattern_type = pt]
TScr(s) == [EmptyCond EXCEPT !.category = 9, !.screener = s]
TTf(tf) == [EmptyCond EXCEPT !.category = 10, !.timeframe = tf]

-----------------------------------------------------------------------------
(* Regular expressions over tokens.  A pattern is a sequence of elements:  *)
(*   word / optword : a word of ws (optional), captured in group g         *)
(*                    ("none": not captured)                               *)
(*   num / optnum   : a number (optional), captured in group g; neg: a     *)
(*                    leading '-' is accepted; pct: '%?' follows the group *)
(*   gap            : the lazy '.*?'                                       *)

El(kind, ws, g, neg, pct) == [kind |-> kind, ws |-> ws, g |-> g, neg |-> neg, pct |-> pct]
Lit(s)      == El("word", {s}, "none", FALSE, FALSE)
In(ws)      == El("word", ws, "none", FALSE, FALSE)
Cap(ws, g)  == El("word", ws, g, FALSE, FALSE)
OptW(ws, g) == El("optword", ws, g, FALSE, FALSE)
Num(g)      == El("num", {}, g, FALSE, FALSE)
NumNeg(g)   == El("num", {}, g, TRUE, FALSE)
NumPct(g)   == El("num", {}, g, FALSE, TRUE)
NumNegPct(g) == El("num", {}, g, TRUE, TRUE)
OptNum(g)   == El("optnum", {}, g, FALSE, FALSE)
Gap         == El("gap", {}, "none", FALSE, FALSE)

NoCaps ==
    [window |-> NoTok, op |-> NoTok, value |-> NoTok, low |-> NoTok, high |-> NoTok,
     ma_type |-> NoTok, benchmark |-> NoTok, ref |-> NoTok, direction |-> NoTok,
     g1 |-> NoTok, crossed |-> NoTok, none |-> NoTok]

\* Does token t fit element e?  last: e is the last element of its pattern
\* (a '%' after the number then simply stays unmatched).
TokFits(e, t, last) ==
    IF e.kind \in {"word", "optword"}
    THEN t.k = "w" /\ t.w \in e.ws
    ELSE /\ t.k = "n"
         /\ (t.n < 0 => e.neg)
         /\ (t.pct => (e.pct \/ last))

\* The text a group captures: in every pattern of the repository the '%?'
\* stands outside the capturing group, so the captured text holds no '%'.
Capture(caps, e, t) == [caps EXCEPT ![e.g] = [t EXCEPT !.pct = FALSE]]

RECURSIVE MatchFrom(_, _, _, _, _)
MatchFrom(pat, k, toks, i, caps) ==
    IF k > Len(pat) THEN <<caps>>
    ELSE LET e == pat[k]
             has == i <= Len(toks)
             take == IF has /\ TokFits(e, toks[i], k = Len(pat))
                     THEN MatchFrom(pat, k + 1, toks, i + 1, Capture(caps, e, toks[i]))
                     ELSE <<>>
             skip == MatchFrom(pat, k + 1, toks, i, caps)
         IN  CASE e.kind \in {"word", "num"} -> take
               [] e.kind \in {"optword", "optnum"} -> take \o skip
               [] OTHER -> skip \o (IF has THEN MatchFrom(pat, k, toks, i + 1, caps) ELSE <<>>)

\* RegExp.prototype.exec without the g flag: the leftmost match, or <<>>
\* (null).  No lastIndex is kept between calls.
RECURSIVE ExecFrom(_, _, _)
ExecFrom(pat, toks, i) ==
    IF i > Len(toks) THEN <<>>
    ELSE LET m == MatchFrom(pat, 1, toks, i, NoCaps)
         IN  IF m # <<>> THEN <<m[1]>> ELSE ExecFrom(pat, toks, i + 1)

Exec(pat, toks) == ExecFrom(pat, toks, 1)

-----------------------------------------------------------------------------
(* sample-reference/parser.ts: the Pattern-Rule Parser of the reference    *)
(* library.                                                                *)

NATURAL_OP_MAP ==
    [x \in {"greater than", "more than", "above", "less than", "below",
            "greater than or equal to", "at least", "no less than",
            "less than or equal to", "at most", "no more than", "equal to", "equals"} |->
        CASE x \in {"greater than", "more than", "above"} -> ">"
          [] x \in {"less than", "below"} -> "<"
          [] x \in {"greater than or equal to", "at least", "no less than"} -> ">="
          [] x \in {"less than or equal to", "at most", "no more than"} -> "<="
          [] OTHER -> "=="]

AsTyped(opRaw) == opRaw

normalizeOp(opRaw) ==
    IF opRaw \in DOMAIN NATURAL_OP_MAP THEN NATURAL_OP_MAP[opRaw] ELSE opRaw

COMPARISON_REGEX ==
    {">=", "<=", ">", "<", "==", "greater than or equal to", "at least", "no less than",
     "less than or equal to", "at most", "no more than", "greater than", "more than",
     "above", "less than", "below", "equal to", "equals"}

MaNames == {"sma", "ema", "hma", "kama", "dema", "tema", "zlma"}
RefNames == {"1d", "1w", "1m", "3m", "6m", "52w", "ytd"}
\* \w+ : any single word of the vocabulary
AnyWord == {"spy", "nifty", "rsi", "sma", "ema", "above", "below"}

Rule(pattern, template) == [pattern |-> pattern, template |-> template]

\* "<name> [window] <op> <value>"
Thresh(names, v) == names \o <<OptNum("window"), Cap(COMPARISON_REGEX, "op"), v>>
\* "<name> .*? <op> <value>"
Lazy(names, v) == names \o <<Gap, Cap(COMPARISON_REGEX, "op"), v>>

REGEX_RULES ==
    << Rule(Thresh(<<Lit("rsi")>>, NumNegPct("value")), TInd(1, "rsi")),
       Rule(Lazy(<<Lit("stochastic")>>, NumNeg("value")), TInd(1, "stoch")),
       Rule(<<Lit("stoch"), Lit("rsi"), OptNum("window"), NumNeg("low"), Lit("-"),
              NumNeg("high")>>, TIndOp(1, "stochrsi", "between")),
       Rule(Thresh(<<Lit("cci")>>, NumNeg("value")), TInd(1, "cci")),
       Rule(Lazy(<<Lit("williams"), In({"%r", "r"})>>, NumNeg("value")), TInd(1, "williams_r")),
       Rule(Lazy(<<Lit("ao")>>, NumNeg("value")), TInd(1, "awesome_osc")),
       Rule(Lazy(<<Lit("kdj")>>, NumNeg("value")), TInd(1, "kdj")),
       Rule(Lazy(<<Lit("uo")>>, NumNeg("value")), TInd(1, "ultimate_osc")),
       Rule(Lazy(<<Lit("cmo")>>, NumNeg("value")), TInd(1, "chande_momentum")),
       Rule(Lazy(<<Lit("roc")>>, NumNegPct("value")), TInd(1, "roc")),
       Rule(Lazy(<<Lit("mfi")>>, NumNeg("value")), TInd(1, "money_flow_idx")),
       Rule(Lazy(<<Lit("ppo")>>, NumNegPct("value")), TInd(1, "percentage_price_osc")),
       Rule(<<Lit("fisher"), Lit("transform"), Gap, Lit("crossed"),
              Cap({"above", "below"}, "op"), NumNeg("value")>>, TInd(1, "fisher_transform")),
       Rule(Lazy(<<Lit("tsi")>>, NumNeg("value")), TInd(1, "tsi")),
       Rule(Lazy(<<Lit("stc")>>, NumNeg("value")), TInd(1, "schaff_trend_cycle")),
       Rule(Thresh(<<Lit("ultimate"), Lit("oscillator")>>, NumNegPct("value")),
            TInd(1, "ultimate_osc")),
       Rule(Thresh(<<Lit("chande"), Lit("momentum")>>, NumNegPct("value")),
            TInd(1, "chande_momentum")),
       Rule(Thresh(<<Lit("money"), Lit("flow"), Lit("index")>>, NumNegPct("value")),
            TInd(1, "money_flow_idx")),
       Rule(Thresh(<<Lit("percentage"), Lit("price"), Lit("oscillator")>>, NumNegPct("value")),
            TInd(1, "percentage_price_osc")),
       Rule(Thresh(<<Lit("schaff"), Lit("trend"), Lit("cycle")>>, NumNegPct("value")),
            TInd(1, "schaff_trend_cycle")),
       Rule(<<OptW({"price", "close"}, "none"), OptW({"crossed"}, "crossed"),
              Cap({"above", "below"}, "op"), Cap(MaNames, "ma_type"), Num("window")>>, TCat(2)),
       Rule(<<Lit("within"), NumPct("value"), Lit("of"), Cap(MaNames, "ma_type"),
              Num("window")>>, TOp(2, "proximity_within")),
       Rule(<<Lit("rs"), In({"vs", "versus"}), Cap(AnyWord, "benchmark"),
              Cap(COMPARISON_REGEX, "op"), Num("value")>>, TCat(3)),
       Rule(<<In({"up", "above"}), NumPct("value"), Lit("from"), Cap(RefNames, "ref"),
              Lit("_low")>>, TOp(4, ">")),
       Rule(<<In({"down", "below"}), NumPct("value"), Lit("from"), Cap(RefNames, "ref"),
              Lit("_high")>>, TOp(4, "<")),
       Rule(<<Lit("within"), NumPct("value"), Lit("of"), Cap({"52w"}, "ref"),
              Lit("_high")>>, TOp(4, "between")),
       Rule(Thresh(<<Lit("atr")>>, NumPct("value")), TInd(5, "atr")),
       Rule(<<Lit("volume"), Lit("spike"), Num("value"), OptW({"×"}, "none"), Lit("sma"),
              Num("window")>>, TInd(5, "volume_sma")),
       Rule(Thresh(<<Lit("bb"), Lit("width")>>, NumPct("value")), TInd(5, "bb_width")),
       Rule(Thresh(<<Lit("kc"), Lit("width")>>, NumPct("value")), TInd(5, "kc_width")),
       Rule(Thresh(<<Lit("ulcer"), Lit("index")>>, Num("value")), TInd(5, "ui")),
       Rule(<<OptW({"bullish", "bearish"}, "g1"), Lit("engulfing")>>, TCat(6)),
       Rule(<<Lit("doji")>>, TPat("doji")),
       Rule(<<Lit("hammer")>>, TPat("hammer")),
       Rule(<<Lit("nr7")>>, TPat("nr7")),
       Rule(<<Lit("inside"), Lit("bar")>>, TPat("inside_bar")),
       Rule(<<Lit("outside"), Lit("bar")>>, TPat("outside_bar")),
       Rule(<<Lit("bb"), Lit("breakout"), Cap({"up", "down"}, "direction")>>,
            TInd(7, "bb_breakout")),
       Rule(<<Lit("donchian"), Num("window"), Lit("breakout"),
              Cap({"up", "down"}, "direction")>>, TInd(7, "donchian_breakout")),
       Rule(<<Lit("pivot"), Lit("breakout")>>, TInd(7, "pivot_break")),
       Rule(<<Lit("base"), Lit("breakout")>>, TScr("base_breakout")),
       Rule(<<Lit("turtle"), In({"soup", "signal"})>>, TScr("turtle_signal")),
       Rule(<<Lit("adx"), Lit("trend"), Cap({"long", "short"}, "direction")>>, TScr("adx_trend")),
       Rule(<<Lit("weekly"), Lit("return"), Cap(COMPARISON_REGEX, "op"), NumPct("value")>>,
            TTf("1w")),
       Rule(<<Lit("ytd"), Lit("return"), Cap(COMPARISON_REGEX, "op"), NumPct("value")>>,
            TTf("ytd")) >>

\* The text of the op group: "crossed above" keeps its blank.
OpText(caps) ==
    IF caps.crossed # NoTok THEN "crossed " \o caps.op.w ELSE caps.op.w

\* parser.ts 220-265: the condition built from a rule's template and the
\* groups of its match.
BuildCondition(rule, caps) ==
    LET t == rule.template
        c1 == IF caps.value # NoTok
              THEN [t EXCEPT !.value = IF caps.value.pct THEN NumVal(caps.value.n, 100)
                                       ELSE NumVal(caps.value.n, 1)]
              ELSE t
        c2 == IF caps.low # NoTok \/ caps.high # NoTok
              THEN [c1 EXCEPT !.value = PairVal(caps.low.n, caps.high.n)]
              ELSE c1
        c3 == IF caps.op # NoTok THEN [c2 EXCEPT !.op = normalizeOp(OpText(caps))] ELSE c2
        c4 == IF caps.window # NoTok THEN [c3 EXCEPT !.window = caps.window.n] ELSE c3
        c5 == IF caps.direction # NoTok
              THEN [c4 EXCEPT !.direction = caps.direction.w,
                              !.op = IF t.category = 7
                                     THEN (IF caps.direction.w = "up" THEN "crossed_above"
                                           ELSE "crossed_below")
                                     ELSE c4.op]
              ELSE c4
        c6 == IF caps.ref # NoTok
              THEN [c5 EXCEPT !.reference = caps.ref.w \o "_" \o caps.ref.w]
              ELSE c5
        c7 == IF caps.ma_type # NoTok THEN [c6 EXCEPT !.ma_type = caps.ma_type.w] ELSE c6
        c8 == IF caps.benchmark # NoTok THEN [c7 EXCEPT !.benchmark = caps.benchmark.w] ELSE c7
        c9 == IF t.category = 6 /\ caps.g1 # NoTok
              THEN [c8 EXCEPT !.pattern_type = caps.g1.w \o "engulfing",
                              !.direction = IF caps.g1.w = "bullish" THEN "bullish"
                                            ELSE "bearish"]
              ELSE c8
    IN  IF c9.window = 0 /\ c9.indicator \in {"rsi", "cci", "atr"}
        THEN [c9 EXCEPT !.window = 14]
        ELSE c9

\* ParsedFilter / ParsedQuery.  hasConditions is FALSE when the object has no
\* conditions field; modelUsed "" is null.
NoFilter ==
    [category |-> 0, hasConditions |-> TRUE, conditions |-> <<>>, confidence |-> "",
     parser |-> "", llmFallback |-> "", modelUsed |-> "", modelsAttempted |-> <<>>]

RegexFilter(cond) ==
    [NoFilter EXCEPT !.category = cond.category, !.conditions = <<cond>>,
                     !.confidence = "high", !.parser = "regex"]

NoMatch == [success |-> FALSE, filter |-> NoFilter]
Matched(cond) == [success |-> TRUE, filter |-> RegexFilter(cond)]

\* the loop as it would be if a later matching rule overrode an earlier one
RECURSIVE RulesFromLast(_, _, _)
RulesFromLast(rules, lowerText, i) ==
    IF i > Len(rules) THEN NoMatch
    ELSE LET later == RulesFromLast(rules, lowerText, i + 1)
             match == Exec(rules[i].pattern, lowerText)
         IN  IF later.success THEN later
             ELSE IF match # <<>> THEN Matched(BuildCondition(rules[i], match[1]))
             ELSE NoMatch

\* parser.ts 217-279: the loop over REGEX_RULES from rule i on
RECURSIVE RulesFrom(_, _, _)
RulesFrom(rules, lowerText, i) ==
    IF i > Len(rules) THEN NoMatch
    ELSE LET match == Exec(rules[i].pattern, lowerText)
         IN  IF match # <<>> THEN Matched(BuildCondition(rules[i], match[1]))
             ELSE RulesFrom(rules, lowerText, i + 1)

parseQueryRegex(t) == RulesFrom(REGEX_RULES, toLowerCase(t), 1)

\* The module-level REGEX_RULES lives as long as the module: its patterns
\* all carry the flag i alone (no g, no y), so exec neither reads nor writes
\* their lastIndex, and what a call could change is the template objects.
TEMPLATES == [k \in 1..Len(REGEX_RULES) |-> REGEX_RULES[k].template]

\* the template as it would be if the condition were the template object
\* itself and not a copy
SameObject(template, condition) == condition

\* parser.ts 221: the condition is a copy of the template ({ ...rule.template },
\* whose fields are all primitives), so what is written to the condition
\* does not reach the template
SpreadCopy(template, condition) == template

\* parser.ts 214-280 on the rule objects as they are now: the result, and the
\* templates after the call
parseQueryRegexOn(now, t) ==
    LET rules == [k \in 1..Len(REGEX_RULES) |-> Rule(REGEX_RULES[k].pattern, now[k])]
        lowerText == toLowerCase(t)
        result == RulesFrom(rules, lowerText, 1)
        hit == {k \in 1..Len(rules) :
                   /\ Exec(rules[k].pattern, lowerText) # <<>>
                   /\ \A j \in 1..(k - 1) : Exec(rules[j].pattern, lowerText) = <<>>}
    IN  [result |-> result,
         templates |-> [k \in 1..Len(now) |->
                           IF k \in hit THEN SpreadCopy(now[k], result.filter.conditions[1])
                           ELSE now[k]]]

-----------------------------------------------------------------------------
(* supabase/functions/stock-screener/index.ts 90-184 (the same text is     *)
(* unnamed/part_001 615-709): the Pattern-Rule Parser of the edge function.*)

normalizeOperator(op) ==
    CASE op \in {"greater than", "more than", "above"} -> ">"
      [] op \in {"less than", "below"} -> "<"
      [] op \in {"greater than or equal to", "at least"} -> ">="
      [] op \in {"less than or equal to", "at most"} -> "<="
      [] op \in {"equal to", "equals"} -> "=="
      [] OTHER -> op

EdgeRule(kind, pattern) == [kind |-> kind, pattern |-> pattern]

EDGE_RULES ==
    << EdgeRule("rsi", <<Lit("rsi"), OptNum("window"),
                         Cap({">", ">=", "<", "<=", "above", "below", "greater than",
                              "less than"}, "op"), Num("value")>>),
       EdgeRule("volume", <<Lit("volume"), Lit("spike"), Num("value"),
                            OptW({"x", "×"}, "none"), Lit("sma"), Num("window")>>),
       EdgeRule("priceMA", <<OptW({"price", "close"}, "none"), OptW({"crossed"}, "crossed"),
                             Cap({"above", "below"}, "op"), Cap({"sma", "ema"}, "ma_type"),
                             Num("window")>>),
       EdgeRule("cci", <<Lit("cci"), OptNum("window"),
                         Cap({">", ">=", "<", "<=", "above", "below"}, "op"),
                         NumNeg("value")>>) >>

\* index.ts 112-181: the condition each of the four matches builds
EdgeCondition(kind, m) ==
    CASE kind = "rsi" ->
           [EmptyCond EXCEPT !.category = 1, !.indicator = "rsi",
                             !.window = IF m.window # NoTok THEN m.window.n ELSE 14,
                             !.op = normalizeOperator(m.op.w),
                             !.value = NumVal(m.value.n, 1)]
      [] kind = "volume" ->
           [EmptyCond EXCEPT !.category = 5, !.indicator = "volume_sma",
                             !.window = m.window.n, !.op = ">",
                             !.value = NumVal(m.value.n, 1)]
      [] kind = "priceMA" ->
           [EmptyCond EXCEPT !.category = 2, !.ma_type = m.ma_type.w, !.window = m.window.n,
                             !.op = IF m.crossed # NoTok
                                    THEN (IF m.op.w = "above" THEN "crossed_above"
                                          ELSE "crossed_below")
                                    ELSE (IF m.op.w = "above" THEN ">" ELSE "<")]
      [] OTHER ->
           [EmptyCond EXCEPT !.category = 1, !.indicator = "cci",
                             !.window = IF m.window # NoTok THEN m.window.n ELSE 20,
                             !.op = normalizeOperator(m.op.w),
                             !.value = NumVal(m.value.n, 1)]

\* index.ts 107-184: four tests in sequence, the first that matches returns
RECURSIVE EdgeFrom(_, _)
EdgeFrom(lowerText, i) ==
    IF i > Len(EDGE_RULES) THEN NoMatch
    ELSE LET match == Exec(EDGE_RULES[i].pattern, lowerText)
         IN  IF match # <<>> THEN Matched(EdgeCondition(EDGE_RULES[i].kind, match[1]))
             ELSE EdgeFrom(lowerText, i + 1)

parseQueryRegexEdge(t) == EdgeFrom(toLowerCase(t), 1)

-----------------------------------------------------------------------------
(* unnamed/part_001 65-153: parseQuery of the first edge function.  Its    *)
(* patterns carry the i flag and are run on the text as typed.             *)

\* the text of a captured word as typed
Typed(t) ==
    IF ~t.uc THEN t.w
    ELSE CASE t.w = "above" -> "ABOVE" [] t.w = "below" -> "BELOW"
           [] t.w = "sma" -> "SMA" [] t.w = "ema" -> "EMA"
           [] t.w = "greater than" -> "GREATER THAN" [] t.w = "less than" -> "LESS THAN"
           [] OTHER -> t.w

\* part_001 141-153: opMap[op.toLowerCase()] || op
normalizeOperatorLegacy(t) ==
    CASE t.w \in {"above", "greater than"} -> ">"
      [] t.w \in {"below", "less than"} -> "<"
      [] OTHER -> Typed(t)

LEGACY_RULES ==
    << EdgeRule("rsi", <<Lit("rsi"), OptNum("window"),
                         Cap({">", "<", ">=", "<=", "above", "below"}, "op"), Num("value")>>),
       EdgeRule("volume", <<Lit("volume"), Lit("spike"), Num("value"),
                            OptW({"x", "×"}, "none"), Lit("sma"), Num("window")>>),
       EdgeRule("priceMA", <<OptW({"price", "close"}, "none"), Lit("crossed"),
                             Cap({"above", "below"}, "op"), Cap({"sma", "ema"}, "ma_type"),
                             Num("window")>>),
       EdgeRule("cci", <<Lit("cci"), OptNum("window"),
                         Cap({">", "<", ">=", "<=", "above", "below", "greater than",
                              "less than"}, "op"), NumNeg("value")>>),
       EdgeRule("macd", <<Lit("macd"), Lit("crossed"), Cap({"above", "below"}, "op"),
                          Lit("signal")>>) >>

\* part_001 73-120: the handlers of the five patterns
LegacyCondition(kind, m) ==
    CASE kind \in {"rsi", "cci"} ->
           [EmptyCond EXCEPT !.category = 1, !.indicator = kind,
                             !.window = IF m.window # NoTok THEN m.window.n ELSE 14,
                             !.op = normalizeOperatorLegacy(m.op),
                             !.value = NumVal(m.value.n, 1)]
      [] kind = "volume" ->
           [EmptyCond EXCEPT !.category = 5, !.indicator = "volume_sma",
                             !.window = m.window.n, !.op = ">",
                             !.value = NumVal(m.value.n, 1)]
      [] kind = "priceMA" ->
           [EmptyCond EXCEPT !.category = 2, !.ma_type = Typed(m.ma_type),
                             !.window = m.window.n,
                             !.op = IF Typed(m.op) = "above" THEN "crossed_above"
                                    ELSE "crossed_below"]
      [] OTHER ->
           [EmptyCond EXCEPT !.category = 8, !.indicator = "macd",
                             !.op = IF Typed(m.op) = "above" THEN "crossed_above"
                                    ELSE "crossed_below"]

\* part_001 124-135: for (const pattern of patterns) ...
RECURSIVE LegacyFrom(_, _)
LegacyFrom(t, i) ==
    IF i > Len(LEGACY_RULES) THEN NoMatch
    ELSE LET match == Exec(LEGACY_RULES[i].pattern, t)
         IN  IF match # <<>> THEN Matched(LegacyCondition(LEGACY_RULES[i].kind, match[1]))
             ELSE LegacyFrom(t, i + 1)

parseQueryRegexLegacy(t) == LegacyFrom(t, 1)

-----------------------------------------------------------------------------
(* unnamed/part_005 27-132: the Pattern-Rule Parser of the client library. *)
(* Its normalizeOperator (27-42) has the table of the edge function's.     *)

ClientOps == {">", ">=", "<", "<=", "above", "below", "greater than", "less than"}
ClientMaNames == {"sma", "ema", "wma", "hma", "kama", "dema", "tema", "zlma"}

CLIENT_RULES ==
    << EdgeRule("rsi", <<Lit("rsi"), OptNum("window"), Cap(ClientOps, "op"), Num("value")>>),
       EdgeRule("stoch", <<In({"stoch", "stochastic"}), Gap, Cap(ClientOps, "op"),
                           Num("value")>>),
       EdgeRule("cci", <<Lit("cci"), OptNum("window"),
                         Cap({">", ">=", "<", "<=", "above", "below"}, "op"),
                         NumNeg("value")>>),
       EdgeRule("priceMA", <<OptW({"price", "close"}, "none"), OptW({"crossed"}, "crossed"),
                             Cap({"above", "below"}, "op"), Cap(ClientMaNames, "ma_type"),
                             Num("window")>>),
       EdgeRule("priceWithinMA", <<Lit("within"), NumPct("value"), Lit("of"),
                                   Cap(ClientMaNames, "ma_type"), Num("window")>>),
       EdgeRule("rs", <<Lit("rs"), In({"vs", "versus"}), Cap(AnyWord, "benchmark"),
                        Cap(ClientOps, "op"), Num("value")>>),
       EdgeRule("upFromLow", <<In({"up", "above"}), NumPct("value"), Lit("from"),
                               Cap(RefNames, "ref"), Lit("_low")>>),
       EdgeRule("downFromHigh", <<In({"down", "below"}), NumPct("value"), Lit("from"),
                                  Cap(RefNames, "ref"), Lit("_high")>>),
       EdgeRule("withinHigh", <<Lit("within"), NumPct("value"), Lit("of"),
                                Cap({"52w"}, "ref"), Lit("_high")>>) >>

\* part_005 58-129: the condition each match builds
ClientCondition(kind, m) ==
    CASE kind = "rsi" ->
           [EmptyCond EXCEPT !.category = 1, !.indicator = "rsi",
                             !.window = IF m.window # NoTok THEN m.window.n ELSE 14,
                             !.op = normalizeOperator(m.op.w),
                             !.value = NumVal(m.value.n, 1)]
      [] kind = "stoch" ->
           [EmptyCond EXCEPT !.category = 1, !.indicator = "stoch", !.window = 14,
                             !.op = normalizeOperator(m.op.w),
                             !.value = NumVal(m.value.n, 1)]
      [] kind = "cci" ->
           [EmptyCond EXCEPT !.category = 1, !.indicator = "cci",
                             !.window = IF m.window # NoTok THEN m.window.n ELSE 20,
                             !.op = normalizeOperator(m.op.w),
                             !.value = NumVal(m.value.n, 1)]
      [] kind = "priceMA" ->
           [EmptyCond EXCEPT !.category = 2, !.ma_type = m.ma_type.w, !.window = m.window.n,
                             !.op = IF m.crossed # NoTok
                                    THEN (IF m.op.w = "above" THEN "crossed_above"
                                          ELSE "crossed_below")
                                    ELSE (IF m.op.w = "above" THEN ">" ELSE "<")]
      [] kind = "priceWithinMA" ->
           [EmptyCond EXCEPT !.category = 2, !.ma_type = m.ma_type.w, !.window = m.window.n,
                             !.op = "proximity_within", !.value = NumVal(m.value.n, 1)]
      [] kind = "rs" ->
           [EmptyCond EXCEPT !.category = 3, !.benchmark = m.benchmark.w,
                             !.op = normalizeOperator(m.op.w),
                             !.value = NumVal(m.value.n, 1)]
      [] kind = "upFromLow" ->
           [EmptyCond EXCEPT !.category = 4, !.reference = m.ref.w \o "_low", !.op = ">",
                             !.value = NumVal(m.value.n, 100)]
      [] kind = "downFromHigh" ->
           [EmptyCond EXCEPT !.category = 4, !.reference = m.ref.w \o "_high", !.op = "<",
                             !.value = NumVal(m.value.n, 100)]
      [] OTHER ->
           [EmptyCond EXCEPT !.category = 4, !.reference = m.ref.w \o "_high",
                             !.op = "between", !.value = NumVal(m.value.n, 100)]

\* part_005 44-132: the tests in sequence, the first that matches returns
RECURSIVE ClientFrom(_, _)
ClientFrom(lowerText, i) ==
    IF i > Len(CLIENT_RULES) THEN NoMatch
    ELSE LET match == Exec(CLIENT_RULES[i].pattern, lowerText)
         IN  IF match # <<>> THEN Matched(ClientCondition(CLIENT_RULES[i].kind, match[1]))
             ELSE ClientFrom(lowerText, i + 1)

parseQueryRegexClient(t) == ClientFrom(toLowerCase(t), 1)

\* The Pattern-Rule Parser of each variant
RegexStage(v, t) ==
    CASE v = "reference" -> parseQueryRegex(t)
      [] v = "legacy" -> parseQueryRegexLegacy(t)
      [] v = "client" -> parseQueryRegexClient(t)
      [] OTHER -> parseQueryRegexEdge(t)

-----------------------------------------------------------------------------
(* The Fallback Compiler.  A provider answer is one of:                    *)
(*   network  fetch rejects          http     a non-OK status              *)
(*   empty    no message content     badjson  content that is not JSON     *)
(*   fenced   JSON in a ``` fence    json     bare JSON                    *)
(* and a JSON answer carries a payload (category 0 / confidence "" /       *)
(* hasConditions FALSE: the field is missing).                             *)

FREE_MODELS ==
    << "x-ai/grok-4-fast:free", "z-ai/glm-4.5-air:free", "deepseek/deepseek-chat-v3.1:free",
       "meta-llama/llama-4-maverick:free", "google/gemini-2.0-flash-exp:free",
       "mistralai/mistral-small-3.2-24b-instruct:free", "qwen/qwen3-coder:free",
       "moonshotai/kimi-k2:free" >>

GEMINI == "google/gemini-2.5-flash-lite"
PARSE_ROUTE == "/api/parse-query"

PayloadCond ==
    [EmptyCond EXCEPT !.category = 1, !.indicator = "rsi", !.window = 14, !.op = ">",
                      !.value = NumVal(70, 1)]

Payload(cat, hasC, conds, conf, fb) ==
    [category |-> cat, hasConditions |-> hasC, conditions |-> conds, confidence |-> conf,
     llmFallback |-> fb]

NoPayload == Payload(0, FALSE, <<>>, "", "")

ValidPayloads ==
    {Payload(1, TRUE, <<PayloadCond>>, c, "") : c \in {"low", "medium", "high"}}
    \cup {Payload(11, TRUE, <<>>, "low", "no category fits")}

InvalidPayloads ==
    {Payload(0, TRUE, <<PayloadCond>>, "high", ""),
     Payload(1, FALSE, <<>>, "high", ""),
     Payload(1, TRUE, <<PayloadCond>>, "", "")}

Outcome(kind, payload) == [kind |-> kind, payload |-> payload]
NoOutcome == Outcome("none", NoPayload)

Outcomes ==
    {Outcome(k, NoPayload) : k \in {"network", "http", "empty", "badjson"}}
    \cup {Outcome("json", p) : p \in ValidPayloads \cup InvalidPayloads}
    \cup {Outcome("fenced", Payload(1, TRUE, <<PayloadCond>>, "high", ""))}

Null == [ok |-> FALSE, filter |-> NoFilter]
Some(f) == [ok |-> TRUE, filter |-> f]

\* part_001 803-877
tryModelWithConfidence(model, o) ==
    IF o.kind \in {"network", "http", "empty", "badjson"} THEN Null
    ELSE LET parsed == o.payload
         IN  IF parsed.category = 0 \/ ~parsed.hasConditions \/ parsed.confidence = ""
             THEN Null
             ELSE Some([category |-> parsed.category, hasConditions |-> TRUE,
                        conditions |-> parsed.conditions, confidence |-> parsed.confidence,
                        parser |-> "llm", llmFallback |-> parsed.llmFallback,
                        modelUsed |-> model, modelsAttempted |-> <<>>])

Sentinel(why, attempted) ==
    [category |-> 11, hasConditions |-> TRUE, conditions |-> <<>>, confidence |-> "low",
     parser |-> "llm", llmFallback |-> why, modelUsed |-> "", modelsAttempted |-> attempted]

\* What the fallback does next: return a filter, call a model, or throw.
Return(f) == [do |-> "return", filter |-> f, model |-> "", attempted |-> <<>>, err |-> ""]
Call(m, attempted) ==
    [do |-> "call", filter |-> NoFilter, model |-> m, attempted |-> attempted, err |-> ""]
Throw(e) == [do |-> "throw", filter |-> NoFilter, model |-> "", attempted |-> <<>>, err |-> e]

\* the test as it would be if any valid result ended the loop
AcceptsAnyValid(result) == result.ok

\* part_001 907: the result that ends the loop
Accepts(result) == result.ok /\ result.filter.confidence = "high"

\* part_001 902-903: for (const model of FREE_MODELS) { modelsAttempted.push(model)
NextModel(attempted) == Len(attempted) + 1

\* the return after the loop as it would be if the loop remembered the most
\* recent valid result
ExhaustedRemembering(attempted) ==
    IF lastPartial # NoFilter THEN [lastPartial EXCEPT !.modelsAttempted = attempted]
    ELSE Sentinel("Could not parse query with high confidence after trying all available models",
                  attempted)

\* the return after the loop as it would be if it did not report the list
ExhaustedForgetting(attempted) ==
    Sentinel("Could not parse query with high confidence after trying all available models",
             <<>>)

\* part_001 916-926: after the loop
Exhausted(attempted) ==
    Sentinel("Could not parse query with high confidence after trying all available models",
             attempted)

\* part_001 883-899: parseWithLLMs up to its first await
parseWithLLMs(key) ==
    IF ~key THEN Return(Sentinel("OPENROUTER_API_KEY not configured", <<>>))
    ELSE Call(FREE_MODELS[NextModel(<<>>)], <<FREE_MODELS[NextModel(<<>>)]>>)

\* part_001 905-926: parseWithLLMs from the answer to its call to the next
\* await or the return
parseWithLLMsResume(attempted, o) ==
    LET result == tryModelWithConfidence(attempted[Len(attempted)], o)
    IN  IF Accepts(result) THEN Return([result.filter EXCEPT !.modelsAttempted = attempted])
        ELSE IF NextModel(attempted) <= Len(FREE_MODELS)
             THEN Call(FREE_MODELS[NextModel(attempted)],
                       Append(attempted, FREE_MODELS[NextModel(attempted)]))
             ELSE Return(Exhausted(attempted))

\* index.ts 186-242: parseWithAI up to its await
parseWithAI(key) ==
    IF ~key THEN Return([Sentinel("LOVABLE_API_KEY not configured", <<>>)
                            EXCEPT !.modelsAttempted = <<>>])
    ELSE Call(GEMINI, <<>>)

\* parseWithAI from the answer on as it would be without its try/catch
parseWithAIResumeUncaught(o) ==
    IF o.kind = "json"
    THEN Return([category |-> o.payload.category, hasConditions |-> o.payload.hasConditions,
                 conditions |-> o.payload.conditions, confidence |-> o.payload.confidence,
                 parser |-> "llm", llmFallback |-> o.payload.llmFallback,
                 modelUsed |-> GEMINI, modelsAttempted |-> <<>>])
    ELSE Throw("Failed to parse query")

\* index.ts 244-271: parseWithAI from the answer on; JSON.parse gets the
\* content as it is, and the object is not validated
parseWithAIResume(o) ==
    IF o.kind = "json"
    THEN Return([category |-> o.payload.category, hasConditions |-> o.payload.hasConditions,
                 conditions |-> o.payload.conditions, confidence |-> o.payload.confidence,
                 parser |-> "llm", llmFallback |-> o.payload.llmFallback,
                 modelUsed |-> GEMINI, modelsAttempted |-> <<>>])
    ELSE Return(Sentinel("Failed to parse query", <<>>))

\* part_001 155-193: parseWithAI of the first edge function up to its await
parseWithAILegacy(key) ==
    IF ~key THEN Throw("LOVABLE_API_KEY not configured") ELSE Call(GEMINI, <<>>)

\* part_001 195-213: from the answer on; nothing is caught
parseWithAILegacyResume(o) ==
    CASE o.kind = "network" -> Throw("fetch failed")
      [] o.kind = "http" -> Throw("Failed to parse query with AI")
      [] o.kind = "empty" -> Throw("No response from AI")
      [] o.kind \in {"badjson", "fenced"} -> Throw("Invalid AI response format")
      [] OTHER ->
           Return([category |-> o.payload.category, hasConditions |-> o.payload.hasConditions,
                   conditions |-> o.payload.conditions, confidence |-> o.payload.confidence,
                   parser |-> "ai", llmFallback |-> o.payload.llmFallback,
                   modelUsed |-> "", modelsAttempted |-> <<>>])

\* parser.ts 282-315: parseQueryLLM; the route answers with JSON or fails
parseQueryLLM == Call(PARSE_ROUTE, <<>>)

parseQueryLLMResume(o) ==
    IF o.kind = "json"
    THEN Return([category |-> o.payload.category, hasConditions |-> o.payload.hasConditions,
                 conditions |-> o.payload.conditions, confidence |-> o.payload.confidence,
                 parser |-> "llm", llmFallback |-> o.payload.llmFallback,
                 modelUsed |-> "", modelsAttempted |-> <<>>])
    ELSE Return(Sentinel("Failed to parse query", <<>>))

FallbackStart(v, key) ==
    CASE v = "edge" -> parseWithLLMs(key)
      [] v = "single" -> parseWithAI(key)
      [] v = "legacy" -> parseWithAILegacy(key)
      [] OTHER -> parseQueryLLM

FallbackResume(v, attempted, o) ==
    CASE v = "edge" -> parseWithLLMsResume(attempted, o)
      [] v = "single" -> parseWithAIResume(o)
      [] v = "legacy" -> parseWithAILegacyResume(o)
      [] OTHER -> parseQueryLLMResume(o)

\* part_001 946-947 / index.ts 287-288: is the usage row written?
Tracks(v, uid, f) ==
    CASE v = "edge" -> uid /\ f.parser = "llm"
      [] v = "single" -> uid
      [] OTHER -> FALSE

-----------------------------------------------------------------------------
(* Query texts *)

qRsi    == <<W("rsi"), W("above"), N(70)>>
qRsi9   == <<W("rsi"), N(9), W("below"), N(30)>>
qCci    == <<W("cci"), W("below"), N(100)>>
qMa     == <<W("price"), W("crossed"), W("above"), W("sma"), N(50)>>
qVol    == <<W("volume"), W("spike"), N(2), W("x"), W("sma"), N(20)>>
qDoji   == <<W("doji")>>
qAtr    == <<W("atr"), W("above"), NP(3)>>
qMacd   == <<W("macd"), W("bullish")>>
qNone   == <<W("show"), W("me"), W("winners")>>

\* texts put through the whole pipeline
PipelineTexts == {qRsi, UpperText(qMa), qDoji, qNone}

PVariants == {"edge", "single", "legacy", "reference"}

\* texts given to the Pattern-Rule Parser alone: phrases, and two phrases in
\* either order with a filler word between
Phrases == {qRsi, qRsi9, qCci, qMa, qVol, qDoji, qAtr, qMacd, qNone}
Joined == {p \o <<W("and")>> \o q : p \in Phrases, q \in Phrases \ {qNone}}
RegexTexts == Phrases \cup Joined \cup {UpperText(p) : p \in Phrases}

RVariants == {"edge", "legacy", "reference"}

\* The examples of STOCK_SCREENER_DOCUMENTATION.md 176-185, as typed there,
\* and their variations: with and without a window, with and without '%',
\* and "RSI <op> 70" for every operator phrase and symbol.
U(s) == [W(s) EXCEPT !.uc = TRUE]
dRsi      == <<U("rsi"), W("above"), N(70)>>
dEma      == <<U("ema"), N(20), W("crossed"), W("above"), U("sma"), N(50)>>
dUp       == <<W("up"), NP(15), W("from"), W("52w"), W("low")>>
dUpRef    == <<W("up"), NP(15), W("from"), W("52w"), W("_low")>>
dUpPlain  == <<W("up"), N(15), W("from"), W("52w"), W("_low")>>
dAtr      == <<U("atr"), W("above"), NP(3)>>
dAtrPlain == <<U("atr"), W("above"), N(3)>>
dAtr10    == <<U("atr"), N(10), W("above"), N(3)>>
dEngulf   == <<W("bullish"), W("engulfing")>>
dBB       == <<U("bb"), W("breakout"), W("up")>>
dWeekly   == <<W("weekly"), W("return"), W("above"), NP(5)>>
dWithin   == <<W("within"), NP(3), W("of"), U("sma"), N(20)>>
dCci      == <<U("cci"), W("above"), N(100)>>
dCci10    == <<U("cci"), N(10), W("above"), N(100)>>
dRsi9     == <<U("rsi"), N(9), W("below"), N(30)>>
OpSymbols == {">", "<", ">=", "<=", "=="}
OpPhrases == {"above", "greater than", "more than", "below", "less than", "at least",
              "at most", "equals"}
dOp(o)    == <<U("rsi"), W(o), N(70)>>
DocTexts ==
    {dRsi, dEma, dUp, dUpRef, dUpPlain, dAtr, dAtrPlain, dAtr10, dEngulf, dBB, dWeekly,
     dWithin, dCci, dCci10, dRsi9} \cup {dOp(o) : o \in OpSymbols \cup OpPhrases}
DocVariants == {"edge", "legacy", "reference", "client"}

\* one text or more for each rule of REGEX_RULES, in the order of the rules
T2(a, b) == <<W(a), W(b)>>
Above(names, n) == names \o <<W("above"), n>>
RuleTexts ==
    {Above(<<W("rsi")>>, N(70)), Above(<<W("stochastic")>>, N(80)),
     <<W("stoch"), W("rsi"), N(14), N(20), W("-"), N(80)>>,
     Above(<<W("cci")>>, N(100)), Above(T2("williams", "r"), N(20)),
     Above(<<W("ao")>>, N(0)), Above(<<W("kdj")>>, N(50)), Above(<<W("uo")>>, N(50)),
     Above(<<W("cmo")>>, N(50)), Above(<<W("roc")>>, NP(5)), Above(<<W("mfi")>>, N(80)),
     Above(<<W("ppo")>>, N(1)),
     <<W("fisher"), W("transform"), W("crossed"), W("above"), N(0)>>,
     Above(<<W("tsi")>>, N(0)), Above(<<W("stc")>>, N(75)),
     Above(T2("ultimate", "oscillator"), N(50)), Above(T2("chande", "momentum"), N(50)),
     Above(<<W("money"), W("flow"), W("index")>>, N(80)),
     Above(<<W("percentage"), W("price"), W("oscillator")>>, N(1)),
     Above(<<W("schaff"), W("trend"), W("cycle")>>, N(75)),
     <<W("price"), W("above"), W("sma"), N(50)>>,
     <<W("price"), W("crossed"), W("above"), W("sma"), N(50)>>,
     <<W("crossed"), W("below"), W("ema"), N(20)>>,
     <<W("close"), W("below"), W("hma"), N(20)>>,
     <<W("within"), NP(3), W("of"), W("sma"), N(20)>>,
     <<W("rs"), W("vs"), W("spy"), W("above"), N(1)>>,
     <<W("up"), NP(15), W("from"), W("52w"), W("_low")>>,
     <<W("up"), NP(5), W("from"), W("1w"), W("_low")>>,
     <<W("down"), NP(10), W("from"), W("52w"), W("_high")>>,
     <<W("within"), NP(3), W("of"), W("52w"), W("_high")>>,
     Above(<<W("atr")>>, NP(3)),
     <<W("volume"), W("spike"), N(2), W("sma"), N(20)>>,
     Above(T2("bb", "width"), NP(5)), Above(T2("kc", "width"), NP(5)),
     Above(T2("ulcer", "index"), N(5)),
     <<W("engulfing")>>, T2("bullish", "engulfing"), T2("bearish", "engulfing"),
     <<W("doji")>>, <<W("hammer")>>, <<W("nr7")>>, T2("inside", "bar"), T2("outside", "bar"),
     <<W("bb"), W("breakout"), W("up")>>, <<W("bb"), W("breakout"), W("down")>>,
     <<W("donchian"), N(20), W("breakout"), W("up")>>,
     <<W("donchian"), N(20), W("breakout"), W("down")>>,
     T2("pivot", "breakout"), T2("base", "breakout"), T2("turtle", "soup"),
     T2("turtle", "signal"), <<W("adx"), W("trend"), W("long")>>,
     <<W("weekly"), W("return"), W("above"), NP(5)>>,
     <<W("ytd"), W("return"), W("above"), NP(10)>>,
     <<W("weekly"), W("return"), W("at least"), NP(5)>>}

-----------------------------------------------------------------------------
(* parseQuery as a process: "start" -> ("awaiting" ->)* -> ("logging" ->)  *)
(* "done", or "failed" when an exception leaves it.                        *)

PcValues == {"start", "awaiting", "logging", "done", "failed"}

PInit ==
    /\ variant \in PVariants
    /\ text \in PipelineTexts
    /\ userId \in BOOLEAN
    /\ apiKey \in BOOLEAN
    /\ pc = "start"
    /\ modelsAttempted = <<>>
    /\ inflight = {}
    /\ hung = FALSE
    /\ callLog = <<>>
    /\ respLog = <<>>
    /\ lastOutcome = NoOutcome
    /\ lastPartial = NoFilter
    /\ parsedFilter = NoFilter
    /\ thrown = ""
    /\ sink = "idle"

PIdle ==
    /\ variant = "edge" /\ text = <<>> /\ userId = FALSE /\ apiKey = FALSE
    /\ pc = "done" /\ modelsAttempted = <<>> /\ inflight = {} /\ hung = FALSE
    /\ callLog = <<>> /\ respLog = <<>> /\ lastOutcome = NoOutcome
    /\ lastPartial = NoFilter /\ parsedFilter = NoFilter /\ thrown = "" /\ sink = "idle"

\* part_001 946-967 / index.ts 287-304: the tail of parseQuery
Finish(f) ==
    /\ parsedFilter' = f
    /\ IF Tracks(variant, userId, f)
       THEN pc' = "logging" /\ sink' = "pending"
       ELSE pc' = "done" /\ UNCHANGED sink
    /\ UNCHANGED <<modelsAttempted, callLog, thrown>>

Continue(c, pending) ==
    CASE c.do = "call" ->
           /\ pc' = "awaiting"
           /\ inflight' = pending \cup {c.model}
           /\ callLog' = Append(callLog, c.model)
           /\ modelsAttempted' = c.attempted
           /\ UNCHANGED <<parsedFilter, thrown, sink>>
      [] c.do = "return" -> inflight' = pending /\ Finish(c.filter)
      [] OTHER ->
           /\ pc' = "failed"
           /\ thrown' = c.err
           /\ inflight' = pending
           /\ UNCHANGED <<parsedFilter, modelsAttempted, callLog, sink>>

\* parseQuery as it would be if it went to the fallback without looking at
\* the regex result
ParseQueryFallbackFirst ==
    /\ pc = "start"
    /\ Continue(FallbackStart(variant, apiKey), inflight)
    /\ UNCHANGED <<variant, text, userId, apiKey, hung, respLog, lastOutcome, lastPartial>>
    /\ UNCHANGED <<rvars, svars, cvars>>

\* part_001 929-944 / index.ts 274-285 / part_001 65-139 / parser.ts 317-325
ParseQuery ==
    /\ pc = "start"
    /\ LET regexResult == RegexStage(variant, text)
       IN  IF regexResult.success
           THEN inflight' = inflight /\ Finish(regexResult.filter)
           ELSE Continue(FallbackStart(variant, apiKey), inflight)
    /\ UNCHANGED <<variant, text, userId, apiKey, hung, respLog, lastOutcome, lastPartial>>
    /\ UNCHANGED <<rvars, svars, cvars>>

Class(o) ==
    LET result == tryModelWithConfidence("", o)
    IN  IF ~result.ok THEN "failed"
        ELSE IF result.filter.confidence = "high" THEN "high" ELSE "partial"

\* the provider answers the call in flight and the fallback runs on to its
\* next await or to the end of parseQuery
ProviderResponds ==
    /\ pc = "awaiting"
    /\ ~hung
    /\ \E o \in Outcomes :
          /\ respLog' = Append(respLog, Class(o))
          /\ lastOutcome' = o
          /\ lastPartial' = IF Class(o) = "partial"
                            THEN tryModelWithConfidence(callLog[Len(callLog)], o).filter
                            ELSE lastPartial
          /\ Continue(FallbackResume(variant, modelsAttempted, o),
                      inflight \ {callLog[Len(callLog)]})
    /\ UNCHANGED <<variant, text, userId, apiKey, hung>>
    /\ UNCHANGED <<rvars, svars, cvars>>

\* the provider never answers the call in flight: fetch is given no signal
\* and no timer races it (part_001 807-824, 195, index.ts 226)
ProviderStalls ==
    /\ pc = "awaiting"
    /\ ~hung
    /\ hung' = TRUE
    /\ UNCHANGED <<variant, text, userId, apiKey, pc, modelsAttempted, inflight, callLog,
                   respLog, lastOutcome, lastPartial, parsedFilter, thrown, sink>>
    /\ UNCHANGED <<rvars, svars, cvars>>

\* the llm_usage insert settles (stored, or rejected: the error is caught
\* and logged) and parseQuery returns
SinkResponds ==
    /\ pc = "logging"
    /\ sink = "pending"
    /\ sink' \in {"stored", "rejected"}
    /\ pc' = "done"
    /\ UNCHANGED <<variant, text, userId, apiKey, modelsAttempted, inflight, hung, callLog,
                   respLog, lastOutcome, lastPartial, parsedFilter, thrown>>
    /\ UNCHANGED <<rvars, svars, cvars>>

\* the insert never settles: parseQuery awaits it
SinkStalls ==
    /\ pc = "logging"
    /\ sink = "pending"
    /\ sink' = "stalled"
    /\ UNCHANGED <<variant, text, userId, apiKey, pc, modelsAttempted, inflight, hung,
                   callLog, respLog, lastOutcome, lastPartial, parsedFilter, thrown>>
    /\ UNCHANGED <<rvars, svars, cvars>>

-----------------------------------------------------------------------------
(* Screening.  The dataset is the sequence of rows handed to screenStocks; *)
(* a row is a bar of one symbol.  Dates are day numbers.                   *)

MinBars == 50

Bar(sym, date, high, low, close, volume) ==
    [symbol |-> sym, date |-> date, high |-> high, low |-> low, close |-> close,
     volume |-> volume]

\* a bar without intraday range
Row(sym, date, close, volume) == Bar(sym, date, close, close, close, volume)

RECURSIVE SumSeq(_)
SumSeq(values) ==
    IF values = <<>> THEN 0 ELSE values[1] + SumSeq(Tail(values))

\* Array.prototype.slice(start, end) with 0-based, possibly negative indexes
Slice(a, start, end) ==
    LET len == Len(a)
        from == IF start < 0 THEN (IF len + start < 0 THEN 0 ELSE len + start)
                ELSE (IF start > len THEN len ELSE start)
        to == IF end < 0 THEN (IF len + end < 0 THEN 0 ELSE len + end)
              ELSE (IF end > len THEN len ELSE end)
    IN  SubSeq(a, from + 1, to)

Closes(data) == [i \in 1..Len(data) |-> data[i].close]
Volumes(data) == [i \in 1..Len(data) |-> data[i].volume]

\* data[i] for a 0-based index i, .close: NaN stands for undefined
CloseAt(data, i) == IF i >= 0 /\ i < Len(data) THEN R(data[i + 1].close, 1) ELSE NaN

\* index.ts 532-535
calculateSMAFromValues(values) ==
    IF Len(values) = 0 THEN R(0, 1) ELSE R(SumSeq(values), Len(values))

\* ti.SMA.calculate({ values, period }) as part_003 15-19 and
\* screenExecutor.ts 126-129 use it: one mean per full window, oldest first
SMA(values, period) ==
    IF Len(values) < period THEN <<>>
    ELSE [i \in 1..(Len(values) - period + 1) |->
             R(SumSeq(SubSeq(values, i, i + period - 1)), period)]

\* a[a.length - k] of a number array, NaN for undefined
FromEnd(a, k) == IF Len(a) >= k /\ k >= 1 THEN a[Len(a) - k + 1] ELSE NaN

Result(pass, value) == [pass |-> pass, value |-> value, indicator |-> ""]
\* the result r with its indicator field set
Labelled(ind, r) == [r EXCEPT !.indicator = ind]
\* `${maType}_${win}`
MaLabel(maType, win) == maType \o "_" \o ToString(win)
Fail == Result(FALSE, R(0, 1))

\* the number a condition's value stands for where the source reads it as
\* a number: cond.value || 0
ValueOrZero(v) == IF v.t = "num" THEN R(v.n, v.d) ELSE R(0, 1)

\* index.ts 537-546
compareValues(actual, op, target) ==
    CASE op = ">" -> RLt(target, actual)
      [] op = ">=" -> RLe(target, actual)
      [] op = "<" -> RLt(actual, target)
      [] op = "<=" -> RLe(actual, target)
      [] op = "==" -> RLt(RAbs(RSub(actual, target)), R(1, 10000))
      [] OTHER -> FALSE

\* index.ts 449-474
handlePriceVsMA(data, cond) ==
  Labelled(MaLabel(cond.ma_type, cond.window),
    IF Len(data) = 0 THEN Fail
    ELSE LET win == cond.window
             op == cond.op
             closes == Closes(data)
             ma == calculateSMAFromValues(Slice(closes, -win, Len(closes)))
             price == CloseAt(data, Len(data) - 1)
             prevPrice == CloseAt(data, Len(data) - 2)
             prevMA == calculateSMAFromValues(Slice(closes, -win - 1, -1))
         IN  IF op = "crossed_above" THEN Result(RLe(prevPrice, prevMA) /\ RLt(ma, price), price)
             ELSE IF op = "crossed_below"
                  THEN Result(RLe(prevMA, prevPrice) /\ RLt(price, ma), price)
                  ELSE Result(IF op = ">" THEN RLt(ma, price) ELSE RLt(price, ma), price))

\* index.ts 476-495
handleVolumeVolatility(data, cond) ==
    LET ind == cond.indicator
        win == IF cond.window # 0 THEN cond.window ELSE 20
        targetVal == ValueOrZero(cond.value)
    IN  IF ind = "volume_sma"
        THEN IF Len(data) = 0 THEN Labelled(ind, Fail)
             ELSE LET volumes == Volumes(Slice(data, -win, Len(data)))
                      volumeSMA == calculateSMAFromValues(volumes)
                      currentVolume == R(data[Len(data)].volume, 1)
                      ratio == RDiv(currentVolume, volumeSMA)
                  IN  Labelled("volume_spike", Result(RLe(targetVal, ratio), ratio))
        ELSE Labelled(ind, Fail)

\* closes[i] - closes[i - 1] for the 0-based indexes from..(to - 1): the sum
\* of the rises (up) or of the falls (~up)
RECURSIVE SumChanges(_, _, _, _)
SumChanges(closes, from, to, up) ==
    IF from >= to THEN 0
    ELSE LET change == closes[from + 1] - closes[from]
             part == IF up THEN (IF change > 0 THEN change ELSE 0)
                     ELSE (IF change > 0 THEN 0 ELSE Abs(change))
         IN  part + SumChanges(closes, from + 1, to, up)

\* index.ts 499-518: <<>> when it throws, <<rsi>> otherwise
calculateRSI(data, period) ==
    IF Len(data) < period + 1 THEN <<>>
    ELSE LET closes == Closes(data)
             gains == SumChanges(closes, Len(closes) - period, Len(closes), TRUE)
             losses == SumChanges(closes, Len(closes) - period, Len(closes), FALSE)
             avgGain == R(gains, period)
             avgLoss == R(losses, period)
         IN  IF losses = 0 THEN <<R(100, 1)>>
             ELSE LET rs == RDiv(avgGain, avgLoss)
                  IN  <<RSub(R(100, 1), RDiv(R(100, 1), RAdd(R(1, 1), rs)))>>

RECURSIVE SumAbsDev(_, _)
SumAbsDev(values, mean) ==
    IF values = <<>> THEN R(0, 1)
    ELSE RAdd(RAbs(RSub(values[1], mean)), SumAbsDev(Tail(values), mean))

RECURSIVE SumR(_)
SumR(values) == IF values = <<>> THEN R(0, 1) ELSE RAdd(values[1], SumR(Tail(values)))

\* index.ts 520-530: <<>> when it throws, <<cci>> otherwise
calculateCCI(data, period) ==
    IF Len(data) < period THEN <<>>
    ELSE LET recentData == Slice(data, -period, Len(data))
             typicalPrices == [i \in 1..Len(recentData) |->
                                  R(recentData[i].high + recentData[i].low
                                       + recentData[i].close, 3)]
             sma == RDiv(SumR(typicalPrices), R(period, 1))
             meanDeviation == RDiv(SumAbsDev(typicalPrices, sma), R(period, 1))
             latestTP == FromEnd(typicalPrices, 1)
         IN  <<RDiv(RSub(latestTP, sma), RMul(R(15, 1000), meanDeviation))>>

\* index.ts 425-447
handleIndicatorThreshold(data, cond) ==
    LET ind == cond.indicator
        win == IF cond.window # 0 THEN cond.window ELSE 14
        op == cond.op
        targetVal == ValueOrZero(cond.value)
        latest == IF ind = "rsi" THEN calculateRSI(data, win) ELSE calculateCCI(data, win)
    IN  IF ind \notin {"rsi", "cci"} THEN Labelled(ind, Fail)
        ELSE IF latest = <<>> THEN Labelled(ind, Fail)
        ELSE Labelled(ind, Result(compareValues(latest[1], op, targetVal), latest[1]))

\* index.ts 413-423
applyCondition(data, cond) ==
    IF cond.category = 1 THEN handleIndicatorThreshold(data, cond)
    ELSE IF cond.category = 2 THEN handlePriceVsMA(data, cond)
    ELSE IF cond.category = 5 THEN handleVolumeVolatility(data, cond)
    ELSE Labelled("unknown", Fail)

\* part_003 504-525; a target that is neither a number nor a pair makes
\* target[0] throw, which every caller catches and answers with pass: false
compareLib(value, op, target) ==
    IF op = "between" /\ target.t = "pair"
    THEN RLe(R(target.lo, 1), value) /\ RLe(value, R(target.hi, 1))
    ELSE IF target.t = "none" THEN FALSE
    ELSE LET targetNum == IF target.t = "num" THEN R(target.n, target.d) ELSE R(target.lo, 1)
         IN  CASE op = ">" -> RLt(targetNum, value)
               [] op = ">=" -> RLe(targetNum, value)
               [] op = "<" -> RLt(value, targetNum)
               [] op = "<=" -> RLe(value, targetNum)
               [] op = "==" -> RLt(RAbs(RSub(value, targetNum)), R(1, 10000))
               [] OTHER -> FALSE

\* a number, or undefined, as a comparison target
AsTarget(x) == IF IsNaN(x) THEN NoVal ELSE NumVal(x.n, x.d)

\* part_003 640-691, for the moving averages the model computes (sma, and
\* the default branch, which is sma too)
handlePriceVsMALib(data, cond) ==
  Labelled(MaLabel(cond.ma_type, cond.window),
    IF Len(data) = 0 THEN Fail
    ELSE LET win == cond.window
             op == cond.op
             ma == SMA(Closes(data), win)
             price == CloseAt(data, Len(data) - 1)
             maValue == FromEnd(ma, 1)
             prevPrice == CloseAt(data, Len(data) - 2)
             prevMA == FromEnd(ma, 2)
         IN  IF op = "crossed_above"
             THEN Result(RLe(prevPrice, prevMA) /\ RLt(maValue, price), price)
             ELSE IF op = "crossed_below"
             THEN Result(RLe(prevMA, prevPrice) /\ RLt(price, maValue), price)
             ELSE IF op = "proximity_within"
             THEN LET pct == IF cond.value.t = "num" THEN R(cond.value.n, cond.value.d)
                             ELSE R(1, 100)
                  IN  Result(RLe(RDiv(RAbs(RSub(price, maValue)), maValue), pct), price)
             ELSE Result(compareLib(price, op, AsTarget(maValue)), price))

\* part_003 715-765, indicators volume and volume_sma
handleVolumeVolatilityLib(data, cond) ==
    LET ind == cond.indicator
        win == IF cond.window # 0 THEN cond.window ELSE 14
        op == cond.op
        val == cond.value
    IN  Labelled(ind,
        IF Len(data) = 0 THEN Fail
        ELSE IF ind = "volume"
        THEN Result(compareLib(R(data[Len(data)].volume, 1), op, val),
                    R(data[Len(data)].volume, 1))
        ELSE IF ind = "volume_sma"
        THEN LET volumeSMA == SMA(Volumes(data), win)
                 currentVolume == R(data[Len(data)].volume, 1)
                 latest == RDiv(currentVolume, FromEnd(volumeSMA, 1))
             IN  Result(compareLib(latest, op, val), latest)
        ELSE Fail)

\* part_003 907-917: daysMap[tf] || 21
DaysOf(tf, data) ==
    CASE tf = "1d" -> 1
      [] tf = "1w" -> 5
      [] tf = "1m" -> 21
      [] tf = "3m" -> 63
      [] tf = "6m" -> 126
      [] tf = "1y" -> 252
      [] tf = "ytd" -> (IF Len(data) - 1 # 0 THEN Len(data) - 1 ELSE 21)
      [] OTHER -> 21

\* part_003 902-934
handleTimeBasedFilters(data, cond) ==
    LET days == DaysOf(cond.timeframe, data)
    IN  Labelled("return_" \o cond.timeframe,
        IF Len(data) = 0 THEN Fail
        ELSE LET startIndex == IF Len(data) - days - 1 > 0 THEN Len(data) - days - 1 ELSE 0
                 startPrice == CloseAt(data, startIndex)
                 endPrice == CloseAt(data, Len(data) - 1)
                 pctChange == RDiv(RSub(endPrice, startPrice), startPrice)
             IN  Result(compareLib(pctChange, cond.op, cond.value), pctChange))

\* Math.min(...values) / Math.max(...values) of a non-empty array
MathMin(values) == CHOOSE m \in {values[i] : i \in 1..Len(values)} :
                       \A i \in 1..Len(values) : m <= values[i]
MathMax(values) == CHOOSE m \in {values[i] : i \in 1..Len(values)} :
                       \A i \in 1..Len(values) : m >= values[i]

\* the function as it would be if a reference without a case were read as
\* the 52-week low
ChangeFromLowByDefault(data, refType) ==
    LET closes == Closes(data)
        currentPrice == closes[Len(closes)]
        refPrice ==
            CASE refType = "1d_low" -> MathMin(Slice(closes, -1, Len(closes)))
              [] refType = "1w_low" -> MathMin(Slice(closes, -5, Len(closes)))
              [] refType = "1m_low" -> MathMin(Slice(closes, -21, Len(closes)))
              [] refType = "52w_high" -> MathMax(Slice(closes, -252, Len(closes)))
              [] OTHER -> MathMin(Slice(closes, -252, Len(closes)))
    IN  RDiv(R(currentPrice - refPrice, 1), R(refPrice, 1))

\* the change from the extreme of the whole series, whatever its length
ChangeFromAllTimeExtreme(data, refType) ==
    LET closes == Closes(data)
        currentPrice == closes[Len(closes)]
        refPrice == IF refType = "52w_high" THEN MathMax(closes) ELSE MathMin(closes)
    IN  RDiv(R(currentPrice - refPrice, 1), R(refPrice, 1))

\* part_003 175-202, for a non-empty series
calculatePercentageChangeFromRef(data, refType) ==
    LET closes == Closes(data)
        currentPrice == closes[Len(closes)]
        refPrice ==
            CASE refType = "1d_low" -> MathMin(Slice(closes, -1, Len(closes)))
              [] refType = "1w_low" -> MathMin(Slice(closes, -5, Len(closes)))
              [] refType = "1m_low" -> MathMin(Slice(closes, -21, Len(closes)))
              [] refType = "52w_low" -> MathMin(Slice(closes, -252, Len(closes)))
              [] refType = "52w_high" -> MathMax(Slice(closes, -252, Len(closes)))
              [] OTHER -> currentPrice
    IN  RDiv(R(currentPrice - refPrice, 1), R(refPrice, 1))

\* part_003 697-713
handlePercentChangeFromRef(data, cond) ==
  Labelled(cond.reference,
    IF Len(data) = 0 THEN Fail
    ELSE LET pctChange == calculatePercentageChangeFromRef(data, cond.reference)
         IN  Result(compareLib(pctChange, cond.op, cond.value), pctChange))

\* part_003 693-695
handleRelativeStrength(data, cond) == Labelled("rs", Fail)

\* part_003 570-638: the names the switch has a case for; every case calls
\* the technicalindicators package
TI_INDICATORS ==
    {"rsi", "stoch", "stochrsi", "cci", "williams_r", "awesome_osc", "roc",
     "money_flow_idx", "percentage_price_osc", "chande_momentum"}

\* part_003 570-638, the default branch of the switch (an indicator with no
\* case); undefined on the names of TI_INDICATORS
handleIndicatorThresholdLib(data, cond) ==
    LET ind == cond.indicator
    IN  CASE ind \notin TI_INDICATORS -> Labelled(ind, Fail)

\* part_003 857-900, a screener with no case in the switch: pass and value
\* keep their initial false and 0; undefined on the three named screeners
handleSpecialScreeners(data, cond) ==
    LET screener == cond.screener
    IN  CASE screener \notin {"base_breakout", "adx_trend", "turtle_signal"} ->
               Labelled(screener, Result(FALSE, R(0, 1)))

\* part_003 94-102, 153-173: calculateBollingerBands and
\* calculateKeltnerChannels hand the series to the technicalindicators
\* package; libBands is the last element of its answer, or no band when the
\* series is shorter than the period
NoBands == [t |-> "none", upper |-> 0, lower |-> 0]
Bands(upper, lower) == [t |-> "bands", upper |-> upper, lower |-> lower]

\* the handler as it would be with the bands compared by >= and <=
handleBreakoutsInclusive(data, cond) ==
    LET ind == cond.indicator
        direction == cond.direction
        win == IF cond.window # 0 THEN cond.window ELSE 14
    IN  Labelled(ind,
        IF Len(data) = 0 THEN Fail
        ELSE LET price == data[Len(data)].close
             IN  IF ind = "bb_breakout" /\ libBands.t = "none" THEN Fail
                 ELSE IF ind \in {"bb_breakout", "kc_breakout"}
                 THEN Result(/\ libBands.t = "bands"
                             /\ IF direction = "up" THEN price >= libBands.upper
                                ELSE price <= libBands.lower,
                             R(price, 1))
                 ELSE IF ind = "donchian_breakout"
                 THEN LET closes == Slice(Closes(data), -win, Len(data))
                          high == MathMax(closes)
                          low == MathMin(closes)
                      IN  Result(IF direction = "up" THEN price >= high ELSE price <= low,
                                 R(price, 1))
                 ELSE Result(FALSE, R(price, 1)))

\* part_003 814-855.  lastBB.upper on a missing band is a TypeError, caught
\* (pass false, value 0); a missing Keltner value is undefined, and every
\* comparison with it is false.
handleBreakouts(data, cond) ==
    LET ind == cond.indicator
        direction == cond.direction
        win == IF cond.window # 0 THEN cond.window ELSE 14
    IN  Labelled(ind,
        IF Len(data) = 0 THEN Fail
        ELSE LET price == data[Len(data)].close
             IN  IF ind = "bb_breakout" /\ libBands.t = "none" THEN Fail
                 ELSE IF ind \in {"bb_breakout", "kc_breakout"}
                 THEN Result(/\ libBands.t = "bands"
                             /\ IF direction = "up" THEN price > libBands.upper
                                ELSE price < libBands.lower,
                             R(price, 1))
                 ELSE IF ind = "donchian_breakout"
                 THEN LET closes == Slice(Closes(data), -win, Len(data))
                          high == MathMax(closes)
                          low == MathMin(closes)
                      IN  Result(IF direction = "up" THEN price >= high ELSE price <= low,
                                 R(price, 1))
                 ELSE Result(FALSE, R(price, 1)))

\* part_003 544-568; undefined on category 6
applyConditionToGroup(symbolData, cond) ==
    IF cond.category = 1 THEN handleIndicatorThresholdLib(symbolData, cond)
    ELSE IF cond.category = 2 THEN handlePriceVsMALib(symbolData, cond)
    ELSE IF cond.category = 3 THEN handleRelativeStrength(symbolData, cond)
    ELSE IF cond.category = 4 THEN handlePercentChangeFromRef(symbolData, cond)
    ELSE IF cond.category = 5 THEN handleVolumeVolatilityLib(symbolData, cond)
    ELSE IF cond.category = 9 THEN handleSpecialScreeners(symbolData, cond)
    ELSE IF cond.category = 10 THEN handleTimeBasedFilters(symbolData, cond)
    ELSE IF cond.category = 7 THEN handleBreakouts(symbolData, cond)
    ELSE CASE cond.category # 6 -> Labelled("unknown", Fail)

\* screenExecutor.ts 30-42, for a number target
compareExecutor(value, op, target) ==
    CASE op = ">" -> RLt(target, value)
      [] op = ">=" -> RLe(target, value)
      [] op = "<" -> RLt(value, target)
      [] op = "<=" -> RLe(value, target)
      [] op = "==" -> RLt(RAbs(RSub(value, target)), R(1, 10000))
      [] OTHER -> FALSE

\* screenExecutor.ts 116-149: null is <<>>, a value v is <<v>>; ema and wma
\* are not among the moving averages screened here
calculateMA(stockGroup, maType, window) ==
    LET values == Closes(stockGroup)
    IN  IF Len(values) < window THEN <<>>
        ELSE IF maType = "sma"
        THEN LET result == SMA(values, window)
             IN  IF Len(result) > 0 THEN <<result[Len(result)]>> ELSE <<>>
        ELSE <<>>

\* screenExecutor.ts 57-108: the names the switch has a case for
EXECUTOR_INDICATORS == {"rsi", "stoch", "cci", "williams_r", "mfi", "money_flow_idx"}

\* screenExecutor.ts 44-114: null for a series shorter than the window and
\* for a name the switch has no case for; every case calls the
\* technicalindicators package, and the operator is undefined on them
calculateIndicator(stockGroup, indicator, window) ==
    IF Len(stockGroup) < window THEN <<>>
    ELSE CASE indicator \notin EXECUTOR_INDICATORS -> <<>>

\* screenExecutor.ts 151-204
applyConditionExecutor(stockGroup, condition) ==
    IF condition.category = 1 /\ condition.indicator # ""
    THEN LET value == calculateIndicator(stockGroup, condition.indicator,
                                         IF condition.window # 0 THEN condition.window
                                         ELSE 14)
         IN  CASE value = <<>> -> Labelled(condition.indicator, Fail)
    ELSE IF condition.category = 2 /\ condition.ma_type # ""
    THEN LET ma == calculateMA(stockGroup, condition.ma_type, condition.window)
         IN  IF ma = <<>> THEN Labelled(condition.ma_type, Fail)
             ELSE Labelled(MaLabel(condition.ma_type, condition.window),
                  LET maValue == ma[1]
                      currentPrice == CloseAt(stockGroup, Len(stockGroup) - 1)
                      prevPrice == IF Len(stockGroup) > 1
                                   THEN CloseAt(stockGroup, Len(stockGroup) - 2)
                                   ELSE currentPrice
                  IN  IF condition.op = "crossed_above"
                      THEN Result(RLe(prevPrice, maValue) /\ RLt(maValue, currentPrice), maValue)
                      ELSE IF condition.op = "crossed_below"
                      THEN Result(RLe(maValue, prevPrice) /\ RLt(currentPrice, maValue), maValue)
                      ELSE IF condition.op = "proximity_within"
                      THEN LET threshold == ValueOrZero(condition.value)
                               diff == RDiv(RAbs(RSub(currentPrice, maValue)), maValue)
                           IN  Result(RLe(diff, RDiv(threshold, R(100, 1))), maValue)
                      ELSE Result(compareExecutor(currentPrice, condition.op, maValue), maValue))
    ELSE IF condition.category = 3 THEN Labelled("rs", Fail)
    ELSE IF condition.category = 4 THEN Labelled("pct_change", Fail)
    ELSE Labelled("unknown", Fail)

IsSorted(rows) == \A i \in 1..(Len(rows) - 1) : rows[i].date <= rows[i + 1].date

\* the rows by date, rows of one date in the order they had
StableSort(rows) ==
    LET n == Len(rows)
        rank == [i \in 1..n |->
                    Cardinality({j \in 1..n : \/ rows[j].date < rows[i].date
                                              \/ rows[j].date = rows[i].date /\ j < i})]
        at == [p \in 1..n |-> CHOOSE i \in 1..n : rank[i] = p - 1]
    IN  [p \in 1..n |-> rows[at[p]]]

\* rows.sort((a, b) => date(a) - date(b)): a stable sort by date
SortByDate(rows) == IF IsSorted(rows) THEN rows ELSE StableSort(rows)

\* the keys of the Map in insertion order: symbols by first appearance
SymbolOrder(data) ==
    LET firsts == {i \in 1..Len(data) : \A j \in 1..(i - 1) : data[j].symbol # data[i].symbol}
    IN  [k \in 1..Cardinality(firsts) |->
            data[CHOOSE f \in firsts : Cardinality({g \in firsts : g < f}) = k - 1].symbol]

RowsOf(data, sym) == SelectSeq(data, LAMBDA row : row.symbol = sym)

\* index.ts 396-411 / part_003 527-542
groupBySymbol(data) ==
    LET order == SymbolOrder(data)
    IN  [k \in 1..Len(order) |->
            [symbol |-> order[k], rows |-> SortByDate(RowsOf(data, order[k]))]]

\* screenExecutor.ts 17-28: the rows stay in the order they came in
groupBySymbolExecutor(data) ==
    LET order == SymbolOrder(data)
    IN  [k \in 1..Len(order) |-> [symbol |-> order[k], rows |-> RowsOf(data, order[k])]]

Match(rows) ==
    [symbol |-> rows[Len(rows)].symbol, close |-> rows[Len(rows)].close,
     volume |-> rows[Len(rows)].volume]

Screened(threw, matches) == [threw |-> threw, results |-> matches]

\* index.ts 369-391: the loop over the grouped entries from entry i on
RECURSIVE ScreenFrom(_, _, _)
ScreenFrom(grouped, i, filter) ==
    IF i > Len(grouped) THEN <<>>
    ELSE LET symbolData == grouped[i].rows
             rest == ScreenFrom(grouped, i + 1, filter)
         IN  IF Len(symbolData) < MinBars THEN rest
             ELSE IF filter.conditions = <<>> THEN rest
             ELSE IF applyCondition(symbolData, filter.conditions[1]).pass
                  THEN <<Match(symbolData)>> \o rest
                  ELSE rest

\* the loop without its "if (!condition) continue": the missing condition
\* reaches applyCondition, whose read of condition.category throws
screenStocksUnguarded(data, filter) ==
    LET grouped == groupBySymbol(data)
    IN  IF (~filter.hasConditions \/ filter.conditions = <<>>)
           /\ \E i \in 1..Len(grouped) : Len(grouped[i].rows) >= MinBars
        THEN Screened(TRUE, <<>>)
        ELSE Screened(FALSE, ScreenFrom(grouped, 1, filter))

\* index.ts 365-394.  filter.conditions[0] on a filter without conditions
\* is a TypeError, reached at the first symbol that has 50 bars.
screenStocks(data, filter) ==
    LET grouped == groupBySymbol(data)
    IN  IF ~filter.hasConditions /\ \E i \in 1..Len(grouped) : Len(grouped[i].rows) >= MinBars
        THEN Screened(TRUE, <<>>)
        ELSE Screened(FALSE, ScreenFrom(grouped, 1, filter))

\* part_003 939-957
RECURSIVE ScreenFromLib(_, _, _)
ScreenFromLib(grouped, i, filter) ==
    IF i > Len(grouped) THEN <<>>
    ELSE LET symbolData == grouped[i].rows
             rest == ScreenFromLib(grouped, i + 1, filter)
         IN  IF Len(symbolData) < 50 THEN rest
             ELSE IF filter.conditions = <<>> THEN rest
             ELSE IF applyConditionToGroup(symbolData, filter.conditions[1]).pass
                  THEN <<Match(symbolData)>> \o rest
                  ELSE rest

\* part_003 936-960
screenStocksLib(data, filter) ==
    LET grouped == groupBySymbol(data)
    IN  IF ~filter.hasConditions /\ \E i \in 1..Len(grouped) : Len(grouped[i].rows) >= 50
        THEN Screened(TRUE, <<>>)
        ELSE Screened(FALSE, ScreenFromLib(grouped, 1, filter))

\* screenExecutor.ts 225-240
RECURSIVE ScreenFromExecutor(_, _, _)
ScreenFromExecutor(grouped, i, condition) ==
    IF i > Len(grouped) THEN <<>>
    ELSE LET stockGroup == grouped[i].rows
             rest == ScreenFromExecutor(grouped, i + 1, condition)
         IN  IF Len(stockGroup) = 0 THEN rest
             ELSE IF applyConditionExecutor(stockGroup, condition).pass
                  THEN <<Match(stockGroup)>> \o rest
                  ELSE rest

\* screenExecutor.ts 206-243
screenStocksExecutor(stockData_, parsedQuery) ==
    LET grouped == groupBySymbolExecutor(stockData_)
    IN  IF ~parsedQuery.hasConditions \/ Len(parsedQuery.conditions) = 0
        THEN Screened(FALSE, <<>>)
        ELSE Screened(FALSE, ScreenFromExecutor(grouped, 1, parsedQuery.conditions[1]))

\* part_001 368-377: '==' within 0.01
compareValuesLegacy(actual, op, target) ==
    CASE op = ">" -> RLt(target, actual)
      [] op = "<" -> RLt(actual, target)
      [] op = ">=" -> RLe(target, actual)
      [] op = "<=" -> RLe(actual, target)
      [] op = "==" -> RLt(RAbs(RSub(actual, target)), R(1, 100))
      [] OTHER -> FALSE

\* part_001 333-350, period 14: the changes between the first 15 bars
calculateRSILegacy(data) ==
    IF Len(data) < 14 + 1 THEN R(50, 1)
    ELSE LET gains == SumChanges(Closes(data), 1, 14 + 1, TRUE)
             losses == SumChanges(Closes(data), 1, 14 + 1, FALSE)
         IN  IF losses = 0 THEN R(100, 1)
             ELSE RSub(R(100, 1),
                       RDiv(R(100, 1), RAdd(R(1, 1), RDiv(R(gains, 14), R(losses, 14)))))

\* part_001 352-361, period 20
calculateCCILegacy(data) ==
    IF Len(data) < 20 THEN R(0, 1) ELSE calculateCCI(data, 20)[1]

\* the rows of sym among allData, oldest first
HistoryOf(allData, sym) == SortByDate(RowsOf(allData, sym))

\* part_001 265-315: whether the latest row stock matches the condition
MatchesLegacy(stock, condition, allData) ==
    LET rows == HistoryOf(allData, stock.symbol)
        target == ValueOrZero(condition.value)
    IN  IF condition.category = 1 /\ condition.indicator = "rsi"
        THEN LET historicalData == Slice(rows, -14, Len(rows))
             IN  /\ Len(historicalData) >= 14
                 /\ compareValuesLegacy(calculateRSILegacy(historicalData), condition.op, target)
        ELSE IF condition.category = 1 /\ condition.indicator = "cci"
        THEN LET historicalData == Slice(rows, -20, Len(rows))
             IN  /\ Len(historicalData) >= 20
                 /\ compareValuesLegacy(calculateCCILegacy(historicalData), condition.op, target)
        ELSE IF condition.category = 2
        THEN LET historicalData == Slice(rows, -(condition.window + 5), Len(rows))
                 ma == calculateSMAFromValues(
                           Closes(Slice(historicalData, -condition.window, Len(historicalData))))
                 prevPrice == CloseAt(historicalData, Len(historicalData) - 2)
                 close == R(stock.close, 1)
             IN  /\ Len(historicalData) >= condition.window
                 /\ IF condition.op = "crossed_above" THEN RLt(prevPrice, ma) /\ RLt(ma, close)
                    ELSE IF condition.op = "crossed_below"
                    THEN RLt(ma, prevPrice) /\ RLt(close, ma)
                    ELSE FALSE
        ELSE IF condition.category = 5 /\ condition.indicator = "volume_sma"
        THEN LET historicalData == Slice(rows, -condition.window, Len(rows))
                 avgVolume == calculateSMAFromValues(Volumes(historicalData))
                 volumeRatio == RDiv(R(stock.volume, 1), avgVolume)
             IN  /\ Len(historicalData) >= condition.window
                 /\ compareValuesLegacy(volumeRatio, condition.op, target)
        ELSE FALSE

\* part_001 317-331: the record pushed for a matching row
MatchLegacy(stock, allData) ==
    LET rows == HistoryOf(allData, stock.symbol)
        change == IF Len(rows) >= 2
                  THEN RMul(RDiv(R(stock.close - rows[Len(rows) - 1].close, 1),
                                 R(rows[Len(rows) - 1].close, 1)), R(100, 1))
                  ELSE R(0, 1)
    IN  [symbol |-> stock.symbol, close |-> stock.close, volume |-> stock.volume,
         date |-> stock.date, change |-> change]

\* part_001 262-331
applyConditionLegacy(latestData, condition, allData) ==
    LET hits == SelectSeq(latestData, LAMBDA stock : MatchesLegacy(stock, condition, allData))
    IN  [k \in 1..Len(hits) |-> MatchLegacy(hits[k], allData)]

\* part_001 246-251: the matches of every condition, one after the other
RECURSIVE ResultsFrom(_, _, _, _)
ResultsFrom(latestData, conditions, i, allData) ==
    IF i > Len(conditions) THEN <<>>
    ELSE applyConditionLegacy(latestData, conditions[i], allData)
            \o ResultsFrom(latestData, conditions, i + 1, allData)

\* the results as they would be without the Map: every entry kept
KeepAll(found) == found

\* part_001 254-256: Array.from(new Map(results.map(item => [item.symbol,
\* item])).values()): one entry per symbol, in the order of the symbols'
\* first entries, each with its symbol's last entry
UniqueBySymbol(found) ==
    LET order == SymbolOrder(found)
    IN  [k \in 1..Len(order) |->
            LET same == RowsOf(found, order[k]) IN same[Len(same)]]

\* .order('date', { ascending: false }) of part_001 222-225
\* (rows of one date keep the order the table has them in)
OrderByDateDescending(table) ==
    LET n == Len(table)
        rank == [i \in 1..n |->
                    Cardinality({j \in 1..n : \/ table[j].date > table[i].date
                                              \/ table[j].date = table[i].date /\ j < i})]
        at == [p \in 1..n |-> CHOOSE i \in 1..n : rank[i] = p - 1]
    IN  [p \in 1..n |-> table[at[p]]]

\* part_001 216-260; table is what the ohlcv_last_6_months view holds
executeScreener(table, parsedQuery) ==
    LET fetched == OrderByDateDescending(table)
        firsts == SymbolOrder(fetched)
        latestData == [k \in 1..Len(firsts) |-> RowsOf(fetched, firsts[k])[1]]
        found == ResultsFrom(latestData, parsedQuery.conditions, 1, fetched)
        uniqueResults == UniqueBySymbol(found)
    IN  IF Len(fetched) = 0 THEN Screened(FALSE, <<>>)
        ELSE Screened(FALSE, Slice(uniqueResults, 0, 50))

ScreenWith(v, data, filter) ==
    CASE v = "edge" -> screenStocks(data, filter)
      [] v = "lib" -> screenStocksLib(data, filter)
      [] v = "legacy" -> executeScreener(data, filter)
      [] OTHER -> screenStocksExecutor(data, filter)

-----------------------------------------------------------------------------
(* Datasets and filters screened *)

TailLen == 3
MaxExtra == 1

TailCloses == {1, 10, 12, 40}
Tails == [1..TailLen -> TailCloses]
VolumePairs == {<<100, 300>>, <<100, 100>>, <<0, 0>>}
Lengths == (MinBars - 1)..(MinBars + MaxExtra)

\* len daily bars of sym: closes flat at 30 and then the tail, volumes
\* vols[1] and on the last bar vols[2]
Series(sym, len, tail, vols) ==
    [i \in 1..len |->
        Row(sym, i,
            IF i <= len - Len(tail) THEN 30 ELSE tail[i - (len - Len(tail))],
            IF i < len THEN vols[1] ELSE vols[2])]

\* a newly listed symbol: three bars
ShortSeries == Series("NEW", 3, <<10, 12, 40>>, <<100, 100>>)

Datasets ==
    {Series("AAA", len, t, v) \o ShortSeries : len \in Lengths, t \in Tails, v \in VolumePairs}

MaCond(maType, win, op) ==
    [EmptyCond EXCEPT !.category = 2, !.ma_type = maType, !.window = win, !.op = op]
VolCond(win) ==
    [EmptyCond EXCEPT !.category = 5, !.indicator = "volume_sma", !.window = win,
                      !.op = ">", !.value = NumVal(2, 1)]
TfCond(tf) ==
    [EmptyCond EXCEPT !.category = 10, !.timeframe = tf, !.op = ">", !.value = NumVal(1, 10)]

ScreenConds ==
    {MaCond("sma", w, op) : w \in {3, 200}, op \in {"crossed_above", "crossed_below", ">", "<"}}
    \cup {MaCond("hma", 3, ">")}
    \cup {VolCond(w) : w \in {20, 200}}
    \cup {TfCond(tf) : tf \in {"1w", "1y"}}
    \cup {TCat(8)}

ScreenFilters ==
    {RegexFilter(c) : c \in ScreenConds}
    \cup {Sentinel("Failed to parse query", <<>>)}
    \cup {[Sentinel("", <<>>) EXCEPT !.category = 1, !.hasConditions = FALSE,
                                      !.confidence = "high", !.modelUsed = GEMINI]}

SVariants == {"edge", "lib", "executor"}

\* datasets with zero closes, flat closes and zero volumes at the end of the
\* series, and conditions whose indicator divides by them
ZeroCloses == {0, 10, 40}
ZeroTails == [1..TailLen -> ZeroCloses]
ZeroVolumePairs == {<<0, 0>>, <<0, 100>>, <<100, 300>>}

ZeroDatasets == {Series("AAA", MinBars, t, v) : t \in ZeroTails, v \in ZeroVolumePairs}

Targets == {NumVal(-1, 1), NumVal(0, 1), NumVal(1, 10)}
Comparisons == {">", ">=", "<", "<=", "=="}

IndCond(cat, ind, win, op, v) ==
    [EmptyCond EXCEPT !.category = cat, !.indicator = ind, !.window = win, !.op = op,
                      !.value = v]
RefCond(ref, op, v) ==
    [EmptyCond EXCEPT !.category = 4, !.reference = ref, !.op = op, !.value = v]
ReturnCond(tf, op, v) ==
    [EmptyCond EXCEPT !.category = 10, !.timeframe = tf, !.op = op, !.value = v]

ZeroConds ==
    {IndCond(1, "cci", 3, op, v) : op \in Comparisons, v \in Targets}
    \cup {IndCond(5, "volume_sma", 3, op, v) : op \in Comparisons, v \in Targets}
    \cup {RefCond(ref, op, v) : ref \in {"1w_low", "52w_high"}, op \in Comparisons,
                                 v \in Targets}
    \cup {ReturnCond("1d", op, v) : op \in Comparisons, v \in Targets}

\* conditions naming what an evaluator has no case for: an indicator, a
\* sub-indicator, a screener, a category
NameCond(cat, ind, scr, pat) ==
    [EmptyCond EXCEPT !.category = cat, !.indicator = ind, !.screener = scr,
                      !.pattern_type = pat, !.window = 14, !.op = ">",
                      !.value = NumVal(0, 1)]

UnknownConds ==
    {NameCond(1, "foo", "", ""), NameCond(5, "foo", "", ""), NameCond(9, "", "foo", ""),
     NameCond(8, "macd", "", ""), NameCond(11, "", "", "")}
\* names with a case in part_003 and none in the edge function (indicator,
\* sub-indicator) or no category in it and in screenExecutor.ts
EdgeUnknownConds == {NameCond(1, "stoch", "", ""), NameCond(5, "atr", "", "")}
UnscreenedConds == {NameCond(9, "", "turtle_signal", ""), NameCond(6, "", "", "doji")}

TwoSymbolDatasets ==
    {Series("AAA", MinBars, t, <<100, 300>>) \o Series("BBB", MinBars, <<10, 12, 40>>, v)
        : t \in Tails, v \in VolumePairs}

SInitNames ==
    /\ svariant \in SVariants
    /\ stockData \in TwoSymbolDatasets
    /\ sfilter \in {RegexFilter(c) : c \in UnknownConds \cup EdgeUnknownConds
                                                \cup UnscreenedConds \cup {VolCond(20)}}
    /\ sfilter.conditions[1] \in EdgeUnknownConds => svariant = "edge"
    /\ sfilter.conditions[1] \in UnscreenedConds => svariant # "lib"
    /\ results = <<>>
    /\ sthrown = FALSE
    /\ spc = "ready"

\* filters with two conditions, as a model's answer can carry
MultiConds ==
    {IndCond(1, "rsi", 14, ">", NumVal(40, 1)), MaCond("sma", 3, "crossed_above"),
     VolCond(20), IndCond(5, "volume_sma", 20, ">=", NumVal(1, 1))}

MultiFilter(c1, c2) ==
    [NoFilter EXCEPT !.category = c1.category, !.conditions = <<c1, c2>>,
                     !.confidence = "high", !.parser = "llm"]

MultiVariants == {"edge", "legacy"}

\* two symbols of 50 bars: rising, falling or flat at the end
MultiTails == {<<10, 12, 40>>, <<40, 12, 10>>, <<30, 30, 30>>}
MultiDatasets ==
    {Series("AAA", MinBars, t, <<100, 300>>) \o Series("BBB", MinBars, <<10, 12, 40>>, v)
        : t \in MultiTails, v \in {<<100, 300>>, <<100, 100>>}}

SInitMulti ==
    /\ svariant \in MultiVariants
    /\ stockData \in MultiDatasets
    /\ sfilter \in {MultiFilter(c1, c2) : c1 \in MultiConds, c2 \in MultiConds}
    /\ results = <<>>
    /\ sthrown = FALSE
    /\ spc = "ready"

\* the same bars supplied in different orders: the last three bars of AAA
\* in any order, and either symbol first
Orders == {p \in [1..3 -> 1..3] : \A i, j \in 1..3 : p[i] = p[j] => i = j}

Reordered(series, p) ==
    [i \in 1..Len(series) |->
        IF i <= Len(series) - 3 THEN series[i]
        ELSE series[Len(series) - 3 + p[i - (Len(series) - 3)]]]

ReorderedDatasets ==
    LET b == Series("BBB", MinBars, <<10, 12, 40>>, <<100, 100>>)
    IN  UNION {{Reordered(Series("AAA", MinBars, t, <<100, 300>>), p) \o b,
                b \o Reordered(Series("AAA", MinBars, t, <<100, 300>>), p)}
                  : t \in MultiTails, p \in Orders}

OrderConds ==
    {MaCond("sma", 3, op) : op \in {"crossed_above", "crossed_below", ">", "<"}}
    \cup {VolCond(20)}

SInitOrder ==
    /\ svariant \in SVariants
    /\ stockData \in ReorderedDatasets
    /\ sfilter \in {RegexFilter(c) : c \in OrderConds}
    /\ results = <<>>
    /\ sthrown = FALSE
    /\ spc = "ready"

\* series for RSI: the closes 10, 11, .., 24 at the end, or the same with one
\* close lowered below the close before it, after nothing, after one higher
\* close, or after 35 flat closes
Climb == [i \in 1..15 |-> 9 + i]
Dips == {[Climb EXCEPT ![k] = Climb[k - 1] - 1] : k \in 2..15}
Flats == {[Climb EXCEPT ![k] = Climb[k - 1]] : k \in {2, 15}}
RsiPrefixes == {<<>>, <<40>>, [i \in 1..35 |-> 30]}
SeriesOf(sym, closes) == [i \in 1..Len(closes) |-> Row(sym, i, closes[i], 100)]
RsiDatasets ==
    {SeriesOf("AAA", pre \o tail) : pre \in RsiPrefixes, tail \in {Climb} \cup Dips \cup Flats}
RsiConds ==
    {IndCond(1, "rsi", w, ">", NumVal(70, 1)) : w \in {0, 14, 5}}
    \cup {IndCond(1, "rsi", 14, "<", NumVal(100, 1))}
RsiVariants == {"edge", "legacy"}

SInitRsi ==
    /\ svariant \in RsiVariants
    /\ stockData \in RsiDatasets
    /\ sfilter \in {RegexFilter(c) : c \in RsiConds}
    /\ results = <<>>
    /\ sthrown = FALSE
    /\ spc = "ready"

\* series of about a year of bars: closes flat at 30 with one low close (5)
\* and one high close (90) early or late in the series, and any last close
YearLengths == {250, 252, 253, 254}
YearCloses(len, lowAt, highAt, last) ==
    [i \in 1..len |->
        IF i = len THEN last
        ELSE IF i = lowAt THEN 5 ELSE IF i = highAt THEN 90 ELSE 30]
YearDatasets ==
    {SeriesOf("AAA", YearCloses(len, lowAt, highAt, last)) :
        len \in YearLengths, lowAt \in {1, 2, 100}, highAt \in {1, 3, 200},
        last \in {5, 20, 30, 100}}
YearConds ==
    {RefCond(ref, op, v) : ref \in {"52w_low", "52w_high"}, op \in {">", "<"},
                           v \in {NumVal(0, 1), NumVal(1, 10)}}

SInitYear ==
    /\ svariant = "lib"
    /\ stockData \in YearDatasets
    /\ sfilter \in {RegexFilter(c) : c \in YearConds}
    /\ results = <<>>
    /\ sthrown = FALSE
    /\ spc = "ready"

\* category-4 conditions on every reference of the function, on one it has
\* no case for and on the one parser.ts 244-245 builds
RefTails == {<<30, 30, 30>>, <<10, 12, 40>>, <<40, 12, 10>>, <<10, 40, 12>>}
RefNamesScreened ==
    {"1d_low", "1w_low", "1m_low", "52w_low", "52w_high", "3m_low", "52w_52w"}
RefConds ==
    {RefCond(ref, op, v) : ref \in RefNamesScreened, op \in {">", "<"},
                           v \in {NumVal(0, 1), NumVal(15, 100)}}
RefDatasets ==
    {Series("AAA", len, t, <<100, 100>>) \o ShortSeries :
        len \in Lengths, t \in RefTails}
    \cup {SeriesOf("AAA", YearCloses(254, lowAt, 200, last)) :
             lowAt \in {1, 100}, last \in {5, 100}}

SInitRef ==
    /\ svariant = "lib"
    /\ stockData \in RefDatasets
    /\ sfilter \in {RegexFilter(c) : c \in RefConds}
    /\ results = <<>>
    /\ sthrown = FALSE
    /\ spc = "ready"

\* breakout conditions on series that end flat, rising, falling or with a
\* spike before the last bar
BreakoutTails == {<<30, 30, 30>>, <<10, 12, 40>>, <<40, 12, 10>>, <<10, 40, 12>>}
BreakoutDatasets ==
    {Series("AAA", len, t, <<100, 100>>) \o ShortSeries : len \in Lengths, t \in BreakoutTails}
BreakoutCond(ind, win, direction) ==
    [EmptyCond EXCEPT !.category = 7, !.indicator = ind, !.window = win,
                      !.direction = direction,
                      !.op = IF direction = "up" THEN "crossed_above" ELSE "crossed_below"]
BreakoutConds ==
    {BreakoutCond(ind, win, d) :
        ind \in {"bb_breakout", "kc_breakout", "donchian_breakout"}, win \in {0, 3},
        d \in {"up", "down"}}

\* the band levels the package may answer: on closes that are all equal
\* (and, for Keltner, bars without range) the deviation and the true range
\* are 0 and both bands are the close; otherwise any lower < upper
BandLevels == {10, 12, 30, 40}
BandsOn(closes) ==
    IF \A i \in 1..Len(closes) : closes[i] = closes[1]
    THEN {Bands(closes[1], closes[1])}
    ELSE {b \in {Bands(u, l) : u \in BandLevels, l \in BandLevels} : b.lower < b.upper}

SInitBreakout ==
    /\ svariant = "lib"
    /\ stockData \in BreakoutDatasets
    /\ sfilter \in {RegexFilter(c) : c \in BreakoutConds}
    /\ results = <<>>
    /\ sthrown = FALSE
    /\ spc = "ready"

SInitZero ==
    /\ svariant \in SVariants
    /\ stockData \in ZeroDatasets
    /\ sfilter \in {RegexFilter(c) : c \in ZeroConds}
    \* CCI is computed in the source by the edge function alone
    /\ sfilter.conditions[1].category = 1 => svariant = "edge"
    /\ results = <<>>
    /\ sthrown = FALSE
    /\ spc = "ready"

SInit ==
    /\ svariant \in SVariants
    /\ stockData \in Datasets
    /\ sfilter \in ScreenFilters
    /\ results = <<>>
    /\ sthrown = FALSE
    /\ spc = "ready"

ScreenStocks ==
    /\ spc = "ready"
    /\ LET out == ScreenWith(svariant, stockData, sfilter)
       IN  results' = out.results /\ sthrown' = out.threw
    /\ spc' = "screened"
    /\ UNCHANGED <<svariant, stockData, sfilter>>
    /\ UNCHANGED <<pvars, rvars, cvars>>

\* index.ts 59-67, part_001 566-582, StockScreener.tsx 76-122: the filter
\* parseQuery returned is screened.  index.ts and part_001 use the
\* screenStocks of their own file (the same text in both); the page screens
\* the filter the edge function sent back with screenExecutor.ts, which is
\* also the screener beside parser.ts.
ScreenersOf(v) == IF v = "reference" THEN {"executor"} ELSE {"edge", "executor"}

EndTexts == {qNone, qRsi}
EndVariants == {"edge", "single", "reference"}
\* screenExecutor.ts calls the technicalindicators package for a category-1
\* condition on a series of window bars or more; the series it is given
\* here are shorter than that, the others run from 49 to 51 bars
EndDatasets(sv) ==
    IF sv = "executor" THEN {<<>>, ShortSeries}
    ELSE {Series("AAA", len, <<1, 10, 40>>, <<100, 300>>) \o ShortSeries : len \in Lengths}
         \cup {<<>>}

SInitEnd ==
    /\ svariant \in ScreenersOf(variant)
    /\ stockData \in EndDatasets(svariant)
    /\ sfilter = NoFilter
    /\ results = <<>>
    /\ sthrown = FALSE
    /\ spc = "ready"

ScreenParsed ==
    /\ pc = "done"
    /\ spc = "ready"
    /\ LET out == ScreenWith(svariant, stockData, parsedFilter)
       IN  results' = out.results /\ sthrown' = out.threw
    /\ sfilter' = parsedFilter
    /\ spc' = "screened"
    /\ UNCHANGED <<svariant, stockData>>
    /\ UNCHANGED <<pvars, rvars, cvars>>

-----------------------------------------------------------------------------
(* The Pattern-Rule Parser on its own *)

RInit ==
    /\ rvariant \in RVariants
    /\ rtext \in RegexTexts
    /\ rresult = NoMatch
    /\ rpc = "ready"
    /\ templates = TEMPLATES

RInitDoc ==
    /\ rvariant \in DocVariants
    /\ rtext \in DocTexts
    /\ rresult = NoMatch
    /\ rpc = "ready"
    /\ templates = TEMPLATES

RInitRules ==
    /\ rvariant = "reference"
    /\ rtext \in RuleTexts
    /\ rresult = NoMatch
    /\ rpc = "ready"
    /\ templates = TEMPLATES

RIdle ==
    /\ rvariant = "edge" /\ rtext = <<>> /\ rresult = NoMatch /\ rpc = "parsed"
    /\ templates = TEMPLATES

\* one call of the parser on text t
Parse(t, after) ==
    /\ IF rvariant = "reference"
       THEN LET out == parseQueryRegexOn(templates, t)
            IN  rresult' = out.result /\ templates' = out.templates
       ELSE rresult' = RegexStage(rvariant, t) /\ UNCHANGED templates
    /\ rtext' = t
    /\ rpc' = after
    /\ UNCHANGED rvariant
    /\ UNCHANGED <<pvars, svars, cvars>>

ParseRegex == rpc = "ready" /\ Parse(rtext, "parsed")

\* the calls of one module instance, one after another: the first on the
\* text at hand, every further one on any text
ParseAgain ==
    \E t \in (IF rpc = "ready" THEN {rtext} ELSE RegexTexts) :
        Parse(t, IF rpc = "ready" THEN "parsed" ELSE "reparsed")

SIdle ==
    /\ svariant = "edge" /\ stockData = <<>> /\ sfilter = NoFilter /\ results = <<>>
    /\ sthrown = FALSE /\ spc = "screened"

-----------------------------------------------------------------------------
(* The comparison on its own *)

\* 70, 70.00005, 70.01, 69.99995, 69.99, 50, 30 and NaN
CmpNumbers ==
    {R(70, 1), R(7000005, 100000), R(7001, 100), R(6999995, 100000), R(6999, 100),
     R(50, 1), R(30, 1)}
CmpValues == CmpNumbers \cup {NaN}
CmpOps == {">", ">=", "<", "<=", "==", "between", "!="}
CmpTargets ==
    {NumVal(x.n, x.d) : x \in CmpNumbers}
        \cup {PairVal(30, 70), PairVal(70, 70), PairVal(70, 30), PairVal(50, 69)}
CmpVariants == {"edge", "lib"}

\* a condition value where the code reads a number: an array of two numbers
\* converts to NaN
ToNumber(target) == IF target.t = "num" THEN R(target.n, target.d) ELSE NaN

CompareWith(v, value, op, target) ==
    CASE v = "lib" -> compareLib(value, op, target)
      [] OTHER -> compareValues(value, op, ToNumber(target))

CInit ==
    /\ cmpVariant \in CmpVariants
    /\ cmpValue \in CmpValues
    /\ cmpOp \in CmpOps
    /\ cmpTarget \in CmpTargets
    /\ cmpResult = FALSE
    /\ cmpPc = "ready"
    /\ libBands = NoBands

CmpIdle ==
    /\ cmpVariant = "edge" /\ cmpValue = R(0, 1) /\ cmpOp = ">" /\ cmpTarget = NumVal(0, 1)
    /\ cmpResult = FALSE /\ cmpPc = "compared"

CIdle == CmpIdle /\ libBands = NoBands

\* the band of the long symbol, over the window of the condition
CInitBreakout ==
    /\ CmpIdle
    /\ LET rows == HistoryOf(stockData, "AAA")
           win == IF sfilter.conditions[1].window # 0 THEN sfilter.conditions[1].window
                  ELSE 14
       IN  libBands \in BandsOn(Slice(Closes(rows), -win, Len(rows)))

Compare ==
    /\ cmpPc = "ready"
    /\ cmpResult' = CompareWith(cmpVariant, cmpValue, cmpOp, cmpTarget)
    /\ cmpPc' = "compared"
    /\ UNCHANGED <<cmpVariant, cmpValue, cmpOp, cmpTarget, libBands>>
    /\ UNCHANGED <<pvars, rvars, svars>>

-----------------------------------------------------------------------------
(* Specifications *)

InitRsi == PIdle /\ RIdle /\ SInitRsi /\ CIdle

NextRsi == ScreenStocks

SpecRsi == InitRsi /\ [][NextRsi]_vars

InitYear == PIdle /\ RIdle /\ SInitYear /\ CIdle

NextYear == ScreenStocks

SpecYear == InitYear /\ [][NextYear]_vars

InitCompare == PIdle /\ RIdle /\ SIdle /\ CInit

NextCompare == Compare

SpecCompare == InitCompare /\ [][NextCompare]_vars

Init == PInit /\ RIdle /\ SIdle /\ CIdle

Next == ParseQuery \/ ProviderResponds \/ ProviderStalls \/ SinkResponds \/ SinkStalls

Spec == Init /\ [][Next]_vars

InitRegex == PIdle /\ RInit /\ SIdle /\ CIdle

NextRegex == ParseRegex

SpecRegex == InitRegex /\ [][NextRegex]_vars

InitDoc == PIdle /\ RInitDoc /\ SIdle /\ CIdle

NextDoc == ParseRegex

SpecDoc == InitDoc /\ [][NextDoc]_vars

InitRef == PIdle /\ RIdle /\ SInitRef /\ CIdle

NextRef == ScreenStocks

SpecRef == InitRef /\ [][NextRef]_vars

InitBreakout == PIdle /\ RIdle /\ SInitBreakout /\ CInitBreakout

NextBreakout == ScreenStocks

SpecBreakout == InitBreakout /\ [][NextBreakout]_vars

InitRules == PIdle /\ RInitRules /\ SIdle /\ CIdle

NextRules == ParseRegex

SpecRules == InitRules /\ [][NextRules]_vars

InitAgain == InitRegex /\ rvariant = "reference"

NextAgain == ParseAgain

SpecAgain == InitAgain /\ [][NextAgain]_vars

InitScreen == PIdle /\ RIdle /\ SInit /\ CIdle

NextScreen == ScreenStocks

SpecScreen == InitScreen /\ [][NextScreen]_vars

InitNames == PIdle /\ RIdle /\ SInitNames /\ CIdle

NextNames == ScreenStocks

SpecNames == InitNames /\ [][NextNames]_vars

InitMulti == PIdle /\ RIdle /\ SInitMulti /\ CIdle

NextMulti == ScreenStocks

SpecMulti == InitMulti /\ [][NextMulti]_vars

InitOrder == PIdle /\ RIdle /\ SInitOrder /\ CIdle

NextOrder == ScreenStocks

SpecOrder == InitOrder /\ [][NextOrder]_vars

InitEnd ==
    /\ PInit /\ variant \in EndVariants /\ text \in EndTexts
    /\ RIdle /\ SInitEnd /\ CIdle

NextEnd == Next \/ ScreenParsed

SpecEnd == InitEnd /\ [][NextEnd]_vars

InitZero == PIdle /\ RIdle /\ SInitZero /\ CIdle

NextZero == ScreenStocks

SpecZero == InitZero /\ [][NextZero]_vars

-----------------------------------------------------------------------------
(* Properties of the Fallback Compiler and of parseQuery *)

Returned == pc \in {"logging", "done"}

\* C1: parseWithLLMs calls the candidates strictly in the order of
\* FREE_MODELS, one call at a time (a call is issued only when every
\* earlier one has been answered), goes on to the next candidate after every
\* answer that is not a valid high-confidence result, and returns at the
\* first valid high-confidence result, with that candidate's result and
\* without calling any later candidate.
C1_InOrderUntilFirstHigh ==
    variant = "edge" =>
        /\ Cardinality(inflight) <= 1
        /\ Len(callLog) <= Len(FREE_MODELS)
        /\ callLog = SubSeq(FREE_MODELS, 1, Len(callLog))
        /\ Len(respLog) <= Len(callLog)
        /\ Len(callLog) <= Len(respLog) + 1
        /\ (pc = "awaiting" =>
               inflight = {callLog[Len(callLog)]} /\ Len(callLog) = Len(respLog) + 1)
        /\ (pc # "awaiting" => inflight = {} /\ Len(callLog) = Len(respLog))
        /\ \A i \in 1..Len(respLog) :
              IF respLog[i] = "high"
              THEN /\ i = Len(respLog)
                   /\ Len(callLog) = i
                   /\ Returned
                   /\ parsedFilter =
                         [tryModelWithConfidence(FREE_MODELS[i], lastOutcome).filter
                             EXCEPT !.modelsAttempted = SubSeq(FREE_MODELS, 1, i)]
              ELSE i < Len(FREE_MODELS) => Len(callLog) >= i + 1

C1_ThirdCandidateHigh ==
    /\ variant = "edge"
    /\ pc = "done"
    /\ respLog = <<"failed", "partial", "high">>
    /\ callLog = SubSeq(FREE_MODELS, 1, 3)
    /\ parsedFilter.confidence = "high"
    /\ parsedFilter.modelUsed = FREE_MODELS[3]

\* a provider answer that is a failure of the candidate: fetch rejected, a
\* non-OK status, no content, content that is not JSON, or JSON without
\* category, conditions or confidence
CandidateFailed(o) == o.kind # "none" /\ ~tryModelWithConfidence("", o).ok

Candidates(v) == IF v = "edge" THEN Len(FREE_MODELS) ELSE 1

\* C2: after a candidate's failure no exception has left parseQuery, and
\* either the next candidate has been called or the list is exhausted and
\* parseQuery goes on to return.
C2_FailureNeverPropagates ==
    CandidateFailed(lastOutcome) =>
        /\ thrown = ""
        /\ pc # "failed"
        /\ IF Len(respLog) < Candidates(variant)
           THEN pc = "awaiting" /\ Len(callLog) = Len(respLog) + 1
           ELSE Returned

SameResult(f, g) ==
    /\ f.category = g.category
    /\ f.conditions = g.conditions
    /\ f.confidence = g.confidence
    /\ f.modelUsed = g.modelUsed

NoHigh == \A i \in 1..Len(respLog) : respLog[i] # "high"

\* C3 as stated: when the candidates are exhausted without a high-confidence
\* result and some candidate returned a valid medium/low result, the last
\* such result is what parseWithLLMs returns; the category-11 result is
\* returned only when no candidate's answer was valid.
C3_ReturnsLastPartial ==
    (variant = "edge" /\ Returned /\ Len(respLog) = Len(FREE_MODELS) /\ NoHigh) =>
        IF lastPartial # NoFilter
        THEN SameResult(parsedFilter, lastPartial)
        ELSE parsedFilter.category = 11

\* C3 amended: when the candidates are exhausted without a high-confidence
\* result, parseWithLLMs returns the category-11, low-confidence result with
\* no model named, whether or not some candidate returned a valid medium/low
\* result.
C3_ExhaustedReturnsSentinel ==
    (variant = "edge" /\ Returned /\ Len(respLog) = Len(FREE_MODELS) /\ NoHigh) =>
        /\ parsedFilter.category = 11
        /\ parsedFilter.conditions = <<>>
        /\ parsedFilter.confidence = "low"
        /\ parsedFilter.modelUsed = ""
        /\ parsedFilter.llmFallback # ""
        /\ parsedFilter.modelsAttempted = FREE_MODELS

C3_MediumSeenSentinelReturned ==
    /\ variant = "edge"
    /\ pc = "done"
    /\ Len(respLog) = Len(FREE_MODELS)
    /\ NoHigh
    /\ lastPartial.confidence = "medium"
    /\ lastPartial.category = 1
    /\ parsedFilter.category = 11

\* an answer that is an error of the call: for parseWithLLMs everything
\* tryModelWithConfidence answers null for, for parseWithAI everything that
\* throws inside its try block
Errored(v, o) ==
    IF v = "edge" THEN CandidateFailed(o)
    ELSE o.kind \in {"network", "http", "empty", "badjson", "fenced"}

AllErrored ==
    /\ respLog # <<>>
    /\ Len(respLog) = Candidates(variant)
    /\ Errored(variant, lastOutcome)
    /\ \A i \in 1..Len(respLog) : respLog[i] # "high"
    /\ variant = "edge" => \A i \in 1..Len(respLog) : respLog[i] = "failed"

\* C4: parseWithLLMs and parseWithAI (index.ts) raise no exception, and when
\* every candidate has errored they return category 11, confidence low and
\* a non-empty llmFallback.
C4_AllErrorsGiveUnparsed ==
    variant \in {"edge", "single"} =>
        /\ thrown = ""
        /\ pc # "failed"
        /\ AllErrored =>
              /\ Returned
              /\ parsedFilter.category = 11
              /\ parsedFilter.confidence = "low"
              /\ parsedFilter.llmFallback # ""

C4_EveryCandidateErrored ==
    /\ variant = "edge"
    /\ pc = "done"
    /\ AllErrored
    /\ Len(callLog) = Len(FREE_MODELS)
    /\ parsedFilter.category = 11
    /\ parsedFilter.modelUsed = ""

\* C5: a call of parseWithLLMs that never completes does not hold parseQuery:
\* while it waits on such a call it still has a step to take (the call is
\* given up and counted as failed), so it goes on to return a ParsedFilter.
C5_HungCallIsGivenUp == (variant = "edge" /\ pc = "awaiting" /\ hung) => ENABLED Next

\* C6: when a rule of the Pattern-Rule Parser matches, parseQuery returns
\* that rule's ParsedFilter (confidence high, parser regex) and no provider
\* call is ever issued; a provider call is issued only when no rule matches.
C6_RegexFirstNoFallback ==
    pc # "start" =>
        LET regexResult == RegexStage(variant, text)
        IN  /\ regexResult.success =>
                  /\ callLog = <<>>
                  /\ inflight = {}
                  /\ respLog = <<>>
                  /\ Returned
                  /\ parsedFilter = regexResult.filter
                  /\ parsedFilter.confidence = "high"
                  /\ parsedFilter.parser = "regex"
            /\ callLog # <<>> => ~regexResult.success

C6_RegexAnsweredNoCall ==
    /\ variant = "edge"
    /\ pc = "done"
    /\ apiKey
    /\ text = UpperText(qMa)
    /\ parsedFilter.parser = "regex"
    /\ parsedFilter.confidence = "high"
    /\ callLog = <<>>

-----------------------------------------------------------------------------
(* Properties of the Pattern-Rule Parser *)

\* the rules of a parser whose patterns match the text
MatchingRules(rules, lowerText) ==
    {k \in 1..Len(rules) : Exec(rules[k].pattern, lowerText) # <<>>}

FirstOf(S) == CHOOSE k \in S : \A j \in S : k <= j

\* the condition rule k of the parser builds from its own match
ConditionOfRule(v, k, lowerText) ==
    IF v = "reference"
    THEN BuildCondition(REGEX_RULES[k], Exec(REGEX_RULES[k].pattern, lowerText)[1])
    ELSE EdgeCondition(EDGE_RULES[k].kind, Exec(EDGE_RULES[k].pattern, lowerText)[1])

RulesOf(v) == IF v = "reference" THEN REGEX_RULES ELSE EDGE_RULES

\* C7: the parser (parser.ts, index.ts) succeeds exactly when some rule
\* matches the lowercased text, and its filter then holds exactly one
\* condition: the one the first matching rule in list order builds from its
\* own match, whatever other rules match and wherever their phrases stand.
C7_FirstMatchingRuleWins ==
    (rpc = "parsed" /\ rvariant \in {"reference", "edge"}) =>
        LET lowerText == toLowerCase(rtext)
            matching == MatchingRules(RulesOf(rvariant), lowerText)
        IN  IF matching = {} THEN ~rresult.success
            ELSE /\ rresult.success
                 /\ Len(rresult.filter.conditions) = 1
                 /\ rresult.filter.conditions[1]
                       = ConditionOfRule(rvariant, FirstOf(matching), lowerText)
                 /\ rresult.filter.category = rresult.filter.conditions[1].category

C7_LaterRulePhraseComesFirst ==
    /\ rpc = "parsed"
    /\ rvariant = "reference"
    /\ rtext = qDoji \o <<W("and")>> \o qRsi
    /\ Cardinality(MatchingRules(REGEX_RULES, toLowerCase(rtext))) = 2
    /\ rresult.filter.conditions[1].indicator = "rsi"

-----------------------------------------------------------------------------
(* Properties of screening *)

ReturnedSymbol(sym) == \E i \in 1..Len(results) : results[i].symbol = sym

\* the bars of each symbol of the dataset, oldest first
History == groupBySymbol(stockData)

ResultWith(v, rows, cond) ==
    CASE v = "edge" -> applyCondition(rows, cond)
      [] v = "lib" -> applyConditionToGroup(rows, cond)
      [] OTHER -> applyConditionExecutor(rows, cond)

EvalWith(v, rows, cond) == ResultWith(v, rows, cond).pass

\* the mean of c[from..to]
MeanOf(c, from, to) == R(SumSeq(SubSeq(c, from, to)), to - from + 1)

\* C8: for a category-2 crossing condition on an SMA of window w, a symbol
\* (with its 50 bars, and w+1 of them) is returned only if at the previous
\* bar the close was not beyond that bar's MA (the mean of the w closes
\* ending there) and at the last bar the close is beyond the last bar's MA;
\* and whenever the previous close was strictly on the other side of the
\* previous bar's MA and the last close is beyond the last MA, the symbol is
\* returned and the condition did not pass one bar earlier.
C8_CrossingUsesPreviousBarsMA ==
    (spc = "screened" /\ ~sthrown /\ sfilter.conditions # <<>>) =>
        LET cond == sfilter.conditions[1]
        IN  (cond.category = 2 /\ cond.ma_type = "sma"
                /\ cond.op \in {"crossed_above", "crossed_below"}) =>
            \A k \in 1..Len(History) :
                LET rows == History[k].rows
                    c == Closes(rows)
                    t == Len(c)
                    w == cond.window
                IN  (t >= 50 /\ t >= w + 1) =>
                    LET cur == R(c[t], 1)
                        prev == R(c[t - 1], 1)
                        maCur == MeanOf(c, t - w + 1, t)
                        maPrev == MeanOf(c, t - w, t - 1)
                        up == cond.op = "crossed_above"
                        notBeyond == IF up THEN RLe(prev, maPrev) ELSE RLe(maPrev, prev)
                        opposite == IF up THEN RLt(prev, maPrev) ELSE RLt(maPrev, prev)
                        beyond == IF up THEN RLt(maCur, cur) ELSE RLt(cur, maCur)
                    IN  /\ ReturnedSymbol(History[k].symbol) => (notBeyond /\ beyond)
                        /\ (opposite /\ beyond) =>
                              /\ ReturnedSymbol(History[k].symbol)
                              /\ ~EvalWith(svariant, SubSeq(rows, 1, t - 1), cond)

\* C9: no symbol with fewer than 50 bars is among the results, and a symbol
\* with exactly 50 bars that passes the condition is.
C9_FiftyBarFloor ==
    spc = "screened" =>
        \A k \in 1..Len(History) :
            LET rows == History[k].rows
            IN  /\ Len(rows) < 50 => ~ReturnedSymbol(History[k].symbol)
                /\ (Len(rows) = 50 /\ ~sthrown /\ sfilter.conditions # <<>>
                       /\ EvalWith(svariant, rows, sfilter.conditions[1]))
                      => ReturnedSymbol(History[k].symbol)

\* the number of bars a condition's window or lookback spans
BarsNeeded(cond, rows) ==
    CASE cond.category \in {2, 5} -> cond.window
      [] cond.category = 10 -> DaysOf(cond.timeframe, rows) + 1
      [] OTHER -> 0

\* C10: a symbol whose series is shorter than the window or lookback of the
\* condition is not returned, and screening raises nothing.
C10_ShortHistoryNeverPasses ==
    (spc = "screened" /\ sfilter.conditions # <<>>) =>
        /\ ~sthrown
        /\ \A k \in 1..Len(History) :
              Len(History[k].rows) < BarsNeeded(sfilter.conditions[1], History[k].rows)
                 => ~ReturnedSymbol(History[k].symbol)

\* the last k values of c (all of them when there are fewer)
LastOf(c, k) == SubSeq(c, IF Len(c) > k THEN Len(c) - k + 1 ELSE 1, Len(c))

RefWindow(ref) ==
    CASE ref = "1d_low" -> 1
      [] ref = "1w_low" -> 5
      [] ref = "1m_low" -> 21
      [] OTHER -> 252

\* the denominator of the condition's indicator is zero on this series:
\* CCI's mean deviation (every typical price of the window is the same),
\* the volume SMA, the reference close of a percent change from a reference,
\* the start close of a return over a timeframe
ZeroDenominator(cond, rows) ==
    LET c == Closes(rows)
        w == cond.window
    IN  CASE cond.category = 1 /\ cond.indicator = "cci" ->
               /\ Len(rows) >= w
               /\ \A i, j \in (Len(rows) - w + 1)..Len(rows) :
                     rows[i].high + rows[i].low + rows[i].close
                        = rows[j].high + rows[j].low + rows[j].close
          [] cond.category = 5 /\ cond.indicator = "volume_sma" ->
               Len(rows) >= w /\ SumSeq(LastOf(Volumes(rows), w)) = 0
          [] cond.category = 4 ->
               IF cond.reference = "52w_high"
               THEN \A i \in 1..Len(LastOf(c, 252)) : LastOf(c, 252)[i] = 0
               ELSE \E i \in 1..Len(LastOf(c, RefWindow(cond.reference))) :
                       LastOf(c, RefWindow(cond.reference))[i] = 0
          [] cond.category = 10 ->
               LET days == DaysOf(cond.timeframe, rows)
               IN  c[IF Len(c) - days >= 1 THEN Len(c) - days ELSE 1] = 0
          [] OTHER -> FALSE

\* C11: a symbol on whose series the condition's indicator has a zero
\* denominator is not returned, whatever the operator and the target.
C11_ZeroDenominatorNeverPasses ==
    (spc = "screened" /\ sfilter.conditions # <<>>) =>
        \A k \in 1..Len(History) :
            ZeroDenominator(sfilter.conditions[1], History[k].rows)
               => ~ReturnedSymbol(History[k].symbol)

\* what each evaluator has a case for
Implements(v, cond) ==
    CASE v = "edge" ->
           \/ cond.category = 1 /\ cond.indicator \in {"rsi", "cci"}
           \/ cond.category = 2
           \/ cond.category = 5 /\ cond.indicator = "volume_sma"
      [] v = "lib" ->
           \/ cond.category = 1 /\ cond.indicator \in TI_INDICATORS
           \/ cond.category \in {2, 3, 4, 6, 7, 10}
           \/ cond.category = 5
                 /\ cond.indicator \in {"volume", "volume_sma", "atr", "bb_width", "kc_width"}
           \/ cond.category = 9
                 /\ cond.screener \in {"base_breakout", "adx_trend", "turtle_signal"}
      [] OTHER ->
           \/ cond.category = 1 /\ cond.indicator \in EXECUTOR_INDICATORS
           \/ cond.category \in {2, 3, 4}

\* the names a condition carries
NamesOf(cond) ==
    {cond.indicator, cond.ma_type, cond.pattern_type, cond.screener, cond.reference,
     cond.timeframe, cond.benchmark, ToString(cond.category)} \ {""}

\* C12: for a condition naming an indicator, sub-indicator, screener or
\* category the evaluator has no case for, every symbol's result has pass
\* false and carries a name of the condition in its indicator field, nothing
\* is raised and no symbol is returned.
C12_UnknownNameEchoed ==
    (spc = "screened" /\ sfilter.conditions # <<>>
        /\ ~Implements(svariant, sfilter.conditions[1])) =>
        /\ ~sthrown
        /\ results = <<>>
        /\ \A k \in 1..Len(History) :
              LET r == ResultWith(svariant, History[k].rows, sfilter.conditions[1])
              IN  ~r.pass /\ r.indicator \in NamesOf(sfilter.conditions[1])

\* the latest bar of sym in the dataset
LatestOf(sym) == LET rows == HistoryOf(stockData, sym) IN rows[Len(rows)]

\* C13: the sequence of matches a screening call returns holds each symbol
\* at most once.
C13_EachSymbolOnce ==
    spc = "screened" =>
        \A i, j \in 1..Len(results) : results[i].symbol = results[j].symbol => i = j

\* a symbol that matches under each of two different conditions, both of
\* them evaluated, is in the matches
C13_MatchedUnderTwoConditions ==
    /\ spc = "screened"
    /\ svariant = "legacy"
    /\ sfilter.conditions[1] # sfilter.conditions[2]
    /\ \E k \in 1..Len(results) :
          /\ MatchesLegacy(LatestOf(results[k].symbol), sfilter.conditions[1], stockData)
          /\ MatchesLegacy(LatestOf(results[k].symbol), sfilter.conditions[2], stockData)

\* the bars of the dataset symbol by symbol, each symbol's bars oldest first
Chronological(data) ==
    SortByDate(RowsOf(data, "AAA")) \o SortByDate(RowsOf(data, "BBB"))

SetOf(seq) == {seq[i] : i \in 1..Len(seq)}

C15_ReparseGivesSameFilter ==
    (rvariant = "reference" /\ rpc \in {"parsed", "reparsed"}) =>
        /\ rresult = parseQueryRegexOn(TEMPLATES, rtext).result
        /\ templates = TEMPLATES

\* "rsi above 70" parsed after other texts, "rsi 9 above 70" among them,
\* which matches the same rule with a window
C15_ParsedAfterOtherTexts ==
    /\ rvariant = "reference" /\ rpc = "reparsed"
    /\ rtext = qRsi
    /\ rresult.success
    /\ rresult.filter.conditions[1].window = 14

-----------------------------------------------------------------------------
\* the one condition of a successful parse
ParsedCond == rresult.filter.conditions[1]
ParsedBy(vs, t) == rvariant \in vs /\ rpc = "parsed" /\ rtext = t

\* C16: "EMA 20 crossed above SMA 50" parses to a category 2 condition with
\* ma_type "ema", window 20 and operator "crossed_above" (parser.ts and the
\* edge function).
C16_EmaCrossIsEma20 ==
    ParsedBy({"reference", "edge"}, dEma) =>
        /\ rresult.success
        /\ ParsedCond.category = 2
        /\ ParsedCond.ma_type = "ema"
        /\ ParsedCond.window = 20
        /\ ParsedCond.op = "crossed_above"

\* STOCK_SCREENER_DOCUMENTATION.md 176-185: each example with its category
DocExamples ==
    {<<dRsi, 1>>, <<dEma, 2>>, <<dUp, 4>>, <<dAtr, 5>>, <<dEngulf, 6>>, <<dBB, 7>>,
     <<dWeekly, 10>>}

\* C17: every example query of the Key Regex Patterns table is matched by
\* the Pattern-Rule Parser (parser.ts, the client library) to the category
\* the table states.
C17_DocExamplesMatchTheirCategory ==
    \A ex \in DocExamples :
        ParsedBy({"reference", "client"}, ex[1]) =>
            rresult.success /\ rresult.filter.category = ex[2]

\* the window the parser is to give each text: the default of the indicator
\* where the text names none, the named window otherwise
WindowOf ==
    {<<dRsi, 14>>, <<dAtr, 14>>, <<dAtrPlain, 14>>, <<dCci, 20>>, <<dRsi9, 9>>,
     <<dAtr10, 10>>, <<dCci10, 10>>}

\* C18: a condition parsed from a text that names no window has window 14
\* for RSI and ATR and 20 for CCI; a window named in the text is kept.
C18_DefaultWindowPerIndicator ==
    \A tw \in WindowOf :
        (ParsedBy({"reference", "edge", "legacy"}, tw[1]) /\ rresult.success) =>
            ParsedCond.window = tw[2]

\* the value the parser is to give each text, as a fraction <<n, d>>: the
\* literal over 100 where '%' follows it, the literal itself otherwise
ValueOf ==
    {<<dAtr, 3, 100>>, <<dAtrPlain, 3, 1>>, <<dUpRef, 15, 100>>, <<dUpPlain, 15, 1>>,
     <<dWeekly, 5, 100>>, <<dWithin, 3, 100>>, <<dRsi, 70, 1>>}

\* C19: the value of a condition parsed from a text whose literal is
\* followed by '%' is the literal divided by 100 ("ATR above 3%" gives
\* 0.03); without '%' it is the literal itself (parser.ts, the client
\* library).
C19_PercentDividesBy100 ==
    \A tv \in ValueOf :
        (ParsedBy({"reference", "client"}, tv[1]) /\ rresult.success) =>
            /\ ParsedCond.value.t = "num"
            /\ REq(R(ParsedCond.value.n, ParsedCond.value.d), R(tv[2], tv[3]))

\* the operator the table gives each operator word
OperatorOf(o) ==
    CASE o \in {"above", "greater than", "more than"} -> ">"
      [] o \in {"below", "less than"} -> "<"
      [] o = "at least" -> ">="
      [] o = "at most" -> "<="
      [] o = "equals" -> "=="

\* C20: the operator of a condition parsed from "RSI <op> 70" is the
\* table's operator for an operator word (above, greater than, more than:
\* '>'; below, less than: '<'; at least: '>='; at most: '<='; equals: '==')
\* and the symbol itself for an operator symbol; "RSI above 70" gives
\* category 1, indicator rsi, window 14, operator '>', value 70 (parser.ts
\* and the edge function).
C20_OperatorWordsNormalised ==
    /\ \A o \in OpPhrases :
          normalizeOp(o) = OperatorOf(o) /\ normalizeOperator(o) = OperatorOf(o)
    /\ \A o \in OpSymbols : normalizeOp(o) = o /\ normalizeOperator(o) = o
    /\ \A o \in OpPhrases :
          (ParsedBy({"reference", "edge"}, dOp(o)) /\ rresult.success) =>
              ParsedCond.op = OperatorOf(o)
    /\ \A o \in OpSymbols :
          (ParsedBy({"reference", "edge"}, dOp(o)) /\ rresult.success) =>
              ParsedCond.op = o
    /\ ParsedBy({"reference", "edge"}, dRsi) =>
          /\ rresult.success
          /\ rresult.filter.category = 1
          /\ ParsedCond = [EmptyCond EXCEPT !.category = 1, !.indicator = "rsi",
                                            !.window = 14, !.op = ">",
                                            !.value = NumVal(70, 1)]

\* "RSI at least 70" has been parsed by parser.ts into a '>=' condition
C20_AtLeastParsed ==
    /\ ParsedBy({"reference"}, dOp("at least"))
    /\ rresult.success
    /\ ParsedCond.op = ">="

-----------------------------------------------------------------------------
\* a number of CmpNumbers in units of 1/100000
Units(x) == x.n * (100000 \div x.d)
Finite(x) == x.d # 0

\* C21: the comparison passes for '==' exactly when |value - target| <
\* 0.0001 (70 passes against 70 and against 70.00005 and fails against
\* 70.01), for 'between' exactly when low <= value <= high of the target
\* pair, and for '>', '>=', '<', '<=' by the usual order (part_003 compare,
\* index.ts compareValues).
C21_ComparisonByOperator ==
    (cmpPc = "compared" /\ cmpVariant \in {"edge", "lib"} /\ Finite(cmpValue)) =>
        LET v == Units(cmpValue)
            t == Units(ToNumber(cmpTarget))
        IN  /\ (cmpTarget.t = "num" /\ cmpOp = "==") =>
                  (cmpResult <=> (v - t < 10 /\ t - v < 10))
            /\ (cmpTarget.t = "pair" /\ cmpOp = "between") =>
                  (cmpResult <=> (cmpTarget.lo * 100000 <= v /\ v <= cmpTarget.hi * 100000))
            /\ (cmpTarget.t = "num" /\ cmpOp = ">") => (cmpResult <=> v > t)
            /\ (cmpTarget.t = "num" /\ cmpOp = ">=") => (cmpResult <=> v >= t)
            /\ (cmpTarget.t = "num" /\ cmpOp = "<") => (cmpResult <=> v < t)
            /\ (cmpTarget.t = "num" /\ cmpOp = "<=") => (cmpResult <=> v <= t)

-----------------------------------------------------------------------------
\* the period the evaluator computes RSI with
PeriodOf(v, cond) == IF v = "legacy" \/ cond.window = 0 THEN 14 ELSE cond.window

\* none of the last period close-to-close changes is a fall
NoLoss(c, period) ==
    /\ Len(c) >= period + 1
    /\ \A i \in (Len(c) - period + 1)..Len(c) : c[i] >= c[i - 1]

StrictlyRising(c, n) ==
    /\ Len(c) >= n
    /\ \A i \in (Len(c) - n + 2)..Len(c) : c[i] > c[i - 1]

\* the RSI the evaluator computes for the symbol at its last bar (<<>> when
\* it computes none), and whether the symbol passes the condition
RsiOf(v, rows, cond) ==
    IF v = "legacy"
    THEN LET historicalData == Slice(rows, -14, Len(rows))
         IN  IF Len(historicalData) >= 14 THEN <<calculateRSILegacy(historicalData)>>
             ELSE <<>>
    ELSE calculateRSI(rows, PeriodOf(v, cond))
PassesRsi(v, rows, cond) ==
    IF v = "legacy" THEN MatchesLegacy(rows[Len(rows)], cond, rows)
    ELSE applyCondition(rows, cond).pass

\* C22: when the last period close-to-close changes of a symbol hold no
\* loss, the RSI computed at its last bar is 100; a symbol whose last 15
\* closes rise strictly has RSI(14) = 100 and passes the condition RSI > 70
\* (index.ts, part_001).
C22_NoLossGivesRsi100 ==
    spc = "screened" =>
        LET cond == sfilter.conditions[1]
            rows == HistoryOf(stockData, "AAA")
            c == [i \in 1..Len(rows) |-> rows[i].close]
        IN  /\ NoLoss(c, PeriodOf(svariant, cond)) =>
                  RsiOf(svariant, rows, cond) = <<R(100, 1)>>
            /\ (StrictlyRising(c, 15) /\ cond.window \in {0, 14} /\ cond.op = ">") =>
                  PassesRsi(svariant, rows, cond)

-----------------------------------------------------------------------------
\* the closes of the symbol's last k bars, as a set
LastCloses(rows, k) ==
    {rows[i].close : i \in (IF Len(rows) > k THEN Len(rows) - k + 1 ELSE 1)..Len(rows)}
Lowest(S) == CHOOSE m \in S : \A x \in S : m <= x
Highest(S) == CHOOSE m \in S : \A x \in S : m >= x

\* C23: with L the minimum of the last 252 closes and C the latest close,
\* calculatePercentageChangeFromRef(data, "52w_low") is (C - L) / L; for
\* "52w_high" the reference is the maximum of the last 252 closes.
C23_ChangeFromYearExtreme ==
    spc = "screened" =>
        LET rows == HistoryOf(stockData, "AAA")
            C == rows[Len(rows)].close
            L == Lowest(LastCloses(rows, 252))
            H == Highest(LastCloses(rows, 252))
            low == calculatePercentageChangeFromRef(rows, "52w_low")
            high == calculatePercentageChangeFromRef(rows, "52w_high")
        IN  /\ low.d # 0 /\ low.n * L = (C - L) * low.d
            /\ high.d # 0 /\ high.n * H = (C - H) * high.d

\* a low close older than 252 bars is left out of the reference, and the
\* symbol is returned for a rise of more than 10% from the 52-week low
C23_OlderLowLeftOut ==
    /\ spc = "screened"
    /\ Len(stockData) = 254
    /\ stockData[1].close = 5
    /\ stockData[254].close = 100
    /\ sfilter.conditions[1] = RefCond("52w_low", ">", NumVal(1, 10))
    /\ calculatePercentageChangeFromRef(stockData, "52w_low") = R(7, 3)
    /\ Len(results) = 1

-----------------------------------------------------------------------------
\* C24: usage logging is best-effort: parseQuery does not wait on the
\* logging sink, so when the llm_usage insert never answers parseQuery
\* still goes on and returns its ParsedFilter (part_001 and index.ts
\* parseQuery).
C24_ReturnsThoughSinkSilent ==
    (variant \in {"edge", "single"} /\ sink = "stalled") => (pc = "done" \/ ENABLED Next)

-----------------------------------------------------------------------------
\* the filter with its first condition alone
FirstOnly(f) == [f EXCEPT !.conditions = <<f.conditions[1]>>]

\* C25: screening evaluates the first condition of the filter alone: the
\* matches of a filter are the matches of the filter that carries only its
\* first condition, so two filters that agree on the first condition give
\* the same matches on every dataset (index.ts screenStocks, part_001
\* executeScreener).
C25_OnlyFirstConditionCounts ==
    (spc = "screened" /\ Len(sfilter.conditions) > 1) =>
        results = ScreenWith(svariant, stockData, FirstOnly(sfilter)).results

-----------------------------------------------------------------------------
\* no rule matched the text and every call of the fallback failed (or none
\* could be made), and parseQuery has returned
Unparsed ==
    /\ ~RegexStage(variant, text).success
    /\ pc = "done"
    /\ AllErrored \/ callLog = <<>>

-----------------------------------------------------------------------------
\* parseWithLLMs has returned: parseQuery holds its result
FallbackReturned == variant = "edge" /\ Returned /\ parsedFilter.parser = "llm"

IsPrefix(a, b) == Len(a) <= Len(b) /\ a = SubSeq(b, 1, Len(a))

\* C27: at every return of parseWithLLMs, modelsAttempted is a prefix of
\* FREE_MODELS as long as the number of provider calls made; a result of
\* confidence high has the last element of modelsAttempted as modelUsed; the
\* category-11 sentinel has modelUsed null and the whole list as
\* modelsAttempted, or the empty list when no API key is configured, in
\* which case no call was made.
C27_AttemptedIsThePrefixCalled ==
    FallbackReturned =>
        LET attempted == parsedFilter.modelsAttempted
        IN  /\ IsPrefix(attempted, FREE_MODELS)
            /\ Len(attempted) = Len(callLog)
            /\ parsedFilter.confidence = "high" =>
                  /\ attempted # <<>>
                  /\ parsedFilter.modelUsed = attempted[Len(attempted)]
            /\ (parsedFilter.category = 11 /\ parsedFilter.confidence = "low") =>
                  /\ parsedFilter.modelUsed = ""
                  /\ attempted = (IF apiKey THEN FREE_MODELS ELSE <<>>)
                  /\ ~apiKey => callLog = <<>>

C27_HighAtThirdCandidate ==
    /\ FallbackReturned
    /\ parsedFilter.confidence = "high"
    /\ Len(parsedFilter.modelsAttempted) = 3
    /\ Len(callLog) = 3
    /\ parsedFilter.modelUsed = FREE_MODELS[3]

-----------------------------------------------------------------------------
\* part_003 504-525: the operators compare has a case for, with the kind of
\* target each needs
Compares(op, value) ==
    \/ op \in {">", ">=", "<", "<=", "=="} /\ value.t = "num"
    \/ op = "between" /\ value.t = "pair"

\* part_003 649-667, 570-610, 723-748, 775-799, 824-844, 866-888: the
\* names each handler's switch has a case for
LIB_MA_TYPES == {"sma", "ema", "wma", "dema", "tema"}
LIB_VOLATILITY == {"volume", "volume_sma", "atr", "bb_width", "kc_width"}
LIB_PATTERNS ==
    {"bullish_engulfing", "engulfing", "bearish_engulfing", "doji", "hammer", "inside_bar",
     "outside_bar", "nr7"}
LIB_BREAKOUTS == {"bb_breakout", "kc_breakout", "donchian_breakout"}
LIB_SCREENERS == {"base_breakout", "adx_trend", "turtle_signal"}
LIB_REFERENCES == {"1d_low", "1w_low", "1m_low", "52w_low", "52w_high"}

\* the conditions applyConditionToGroup can pass on some series
InDomain(cond) ==
    CASE cond.category = 1 ->
           cond.indicator \in TI_INDICATORS /\ Compares(cond.op, cond.value)
      [] cond.category = 2 ->
           /\ cond.ma_type \in LIB_MA_TYPES
           /\ \/ cond.op \in {"crossed_above", "crossed_below", "proximity_within"}
              \/ cond.op \in {">", ">=", "<", "<=", "=="}
      [] cond.category = 3 -> FALSE
      [] cond.category = 4 ->
           cond.reference \in LIB_REFERENCES /\ Compares(cond.op, cond.value)
      [] cond.category = 5 ->
           cond.indicator \in LIB_VOLATILITY /\ Compares(cond.op, cond.value)
      [] cond.category = 6 -> cond.pattern_type \in LIB_PATTERNS
      [] cond.category = 7 -> cond.indicator \in LIB_BREAKOUTS
      [] cond.category = 9 -> cond.screener \in LIB_SCREENERS
      [] cond.category = 10 -> Compares(cond.op, cond.value)
      [] OTHER -> FALSE

\* C28: every condition the Pattern-Rule Parser emits is one the Condition
\* Evaluator implements: the handler of its category has a case for its
\* indicator, ma_type, pattern_type, reference or screener, and in the
\* categories compared by operator its op is defined and is one compare
\* handles, so no rule emits a condition that no series can pass.
C28_EmittedConditionsAreEvaluable ==
    (rvariant = "reference" /\ rpc = "parsed" /\ rresult.success) =>
        InDomain(rresult.filter.conditions[1])

-----------------------------------------------------------------------------
\* the breakout condition screened for, its window, and the long symbol's
\* latest close and bounds: the package's band, or the extremes of the
\* closes of the Donchian window
BreakoutOf == sfilter.conditions[1]
BreakoutWindow == IF BreakoutOf.window # 0 THEN BreakoutOf.window ELSE 14
LatestClose == LatestOf("AAA").close
UpperBound ==
    IF BreakoutOf.indicator = "donchian_breakout"
    THEN Highest(LastCloses(HistoryOf(stockData, "AAA"), BreakoutWindow))
    ELSE libBands.upper
LowerBound ==
    IF BreakoutOf.indicator = "donchian_breakout"
    THEN Lowest(LastCloses(HistoryOf(stockData, "AAA"), BreakoutWindow))
    ELSE libBands.lower
BreakoutScreened ==
    /\ spc = "screened"
    /\ sfilter.conditions # <<>>
    /\ BreakoutOf.category = 7
    /\ BreakoutOf.indicator \in {"bb_breakout", "kc_breakout", "donchian_breakout"}
    /\ Len(HistoryOf(stockData, "AAA")) >= 50

-----------------------------------------------------------------------------
\* the change of the long symbol from reference ref
ChangeOf(ref) == calculatePercentageChangeFromRef(HistoryOf(stockData, "AAA"), ref)
Zero == R(0, 1)

\* C30: on a series of positive closes calculatePercentageChangeFromRef is
\* >= 0 for every '_low' reference and <= 0 for '52w_high'; for '1d_low'
\* and for a reference it has no case for it is exactly 0, so a category-4
\* condition '> v' with v > 0 on such a reference returns no symbol.
C30_SignOfChangeFromRef ==
    spc = "screened" =>
        /\ \A ref \in {"1d_low", "1w_low", "1m_low", "52w_low"} : RLe(Zero, ChangeOf(ref))
        /\ RLe(ChangeOf("52w_high"), Zero)
        /\ \A ref \in {"1d_low"} \cup (RefNamesScreened \ LIB_REFERENCES) : ChangeOf(ref) = Zero
        /\ LET cond == sfilter.conditions[1]
           IN  (/\ cond.category = 4
                /\ cond.reference \in {"1d_low"} \cup (RefNamesScreened \ LIB_REFERENCES)
                /\ cond.op = ">"
                /\ RLt(Zero, R(cond.value.n, cond.value.d)))
               => results = <<>>

C30_RiseFromLowUnseenOnBuiltReference ==
    /\ spc = "screened"
    /\ sfilter.conditions[1] = RefCond("52w_52w", ">", NumVal(15, 100))
    /\ LatestOf("AAA").close = 100
    /\ RLt(R(15, 100), ChangeOf("52w_low"))
    /\ ChangeOf("52w_52w") = Zero
    /\ results = <<>>

====
